---- MODULE Spec2Model ----
(***************************************************************************)
(* AI Content Pipeline: the Trend Selection Engine (agents/trend_selector)  *)
(* and the Pipeline Orchestrator (main.py) with the stages it sequences.    *)
(*                                                                          *)
(* Texts are sequences of one-character strings, so that lower-casing and   *)
(* substring search are computed and not assumed.  Scores are kept in       *)
(* units of 1/ScoreUnit, which makes every value the code can produce for   *)
(* whole-hour publication times an exact integer.                           *)
(***************************************************************************)
EXTENDS Integers, Sequences, FiniteSets, TLC

VARIABLES
    \* ---- TrendSelector called directly (specification SpecTrend)
    tpc,          \* position of the caller: "input", "clustered", "ranked", "scored", "ran"
    records,      \* argument of cluster_news
    clusters,     \* result of cluster_news: insertion-ordered map, as a sequence
    top_n,        \* argument of select_top_trends
    top_trends,   \* result of select_top_trends
    scored,       \* last pair of _calculate_score calls: a cluster and the cluster plus one item
    ran,          \* last call of TrendSelector.run: what it was given, did and returned
    \* ---- Orchestrator (specification Spec)
    pc,           \* position inside run_pipeline
    stats,        \* Orchestrator.stats
    trends,       \* run_pipeline's local `trends`
    returned,     \* what run_pipeline handed to its caller
    clock,        \* datetime.now(), in ticks
    run_no,       \* which call of run_pipeline on this Orchestrator this is
    environ,      \* os.environ after load_env(): the required keys that have a value
    NewsRaw,      \* rows of the NewsRaw sheet
    Texts,        \* rows of the Texts sheet
    telegram,     \* messages delivered to the channel
    log,          \* history: what run_pipeline did, in order
    calls         \* history: what each stage operation did (returned / raised)

tvars == <<tpc, records, clusters, top_n, top_trends, scored, ran>>
pvars == <<pc, stats, trends, returned, clock, run_no, environ, NewsRaw, Texts, telegram, log, calls>>
vars == <<tpc, records, clusters, top_n, top_trends, scored, ran,
          pc, stats, trends, returned, clock, run_no, environ, NewsRaw, Texts, telegram, log, calls>>

-----------------------------------------------------------------------------
(* Bounds of the model *)

MaxRecords == 4
MaxTopN == 5
MaxOldTexts == 1
MaxRuns == 2
MaxSheetRows == 2
MaxStageRuns == 3
MaxTrends == 5
MaxRetriesArg == 3
MaxRegistrations == 2
MaxDays == 3

-----------------------------------------------------------------------------
(* Generic helpers *)

Max(a, b) == IF a >= b THEN a ELSE b
Min(a, b) == IF a <= b THEN a ELSE b

Range(s) == {s[i] : i \in 1..Len(s)}

SeqsUpTo(S, n) == UNION {[1..k -> S] : k \in 0..n}

\* Python's s[:n]
SliceTo(s, n) ==
    IF n >= 0 THEN SubSeq(s, 1, Min(n, Len(s)))
    ELSE SubSeq(s, 1, Max(0, Len(s) + n))

\* Python's `x in list`
InList(x, l) == \E i \in 1..Len(l) : l[i] = x

-----------------------------------------------------------------------------
(* Text: str.lower() and the `in` operator on strings *)

UpperChars == <<"A", "B", "C", "D", "E", "F", "G", "H", "I", "J", "K", "L", "M",
                "N", "O", "P", "Q", "R", "S", "T", "U", "V", "W", "X", "Y", "Z">>
LowerChars == <<"a", "b", "c", "d", "e", "f", "g", "h", "i", "j", "k", "l", "m",
                "n", "o", "p", "q", "r", "s", "t", "u", "v", "w", "x", "y", "z">>

LowerChar(c) ==
    IF \E i \in 1..Len(UpperChars) : UpperChars[i] = c
    THEN LowerChars[CHOOSE i \in 1..Len(UpperChars) : UpperChars[i] = c]
    ELSE c

lower(text) == [i \in 1..Len(text) |-> LowerChar(text[i])]

\* `keyword in text`
Contains(text, keyword) ==
    \E i \in 1..(Len(text) - Len(keyword) + 1) :
        SubSeq(text, i, i + Len(keyword) - 1) = keyword

-----------------------------------------------------------------------------
(* agents/trend_selector.py: module constants *)

TOPIC_KEYWORDS ==
  << [topic |-> "AI Models", keywords |-> <<
        <<"g", "p", "t">>,
        <<"m", "o", "d", "e", "l">>,
        <<"l", "l", "m">>,
        <<"t", "r", "a", "n", "s", "f", "o", "r", "m", "e", "r">>,
        <<"d", "i", "f", "f", "u", "s", "i", "o", "n">>,
        <<"c", "l", "a", "u", "d", "e">>,
        <<"g", "e", "m", "i", "n", "i">>,
        <<"l", "l", "a", "m", "a">> >>],
     [topic |-> "AI Agents", keywords |-> <<
        <<"a", "g", "e", "n", "t">>,
        <<"a", "u", "t", "o", "n", "o", "m", "o", "u", "s">>,
        <<"w", "o", "r", "k", "f", "l", "o", "w">>,
        <<"a", "u", "t", "o", "m", "a", "t", "i", "o", "n">>,
        <<"c", "o", "p", "i", "l", "o", "t">>,
        <<"a", "s", "s", "i", "s", "t", "a", "n", "t">> >>],
     [topic |-> "AI Regulation", keywords |-> <<
        <<"r", "e", "g", "u", "l", "a", "t", "i", "o", "n">>,
        <<"p", "o", "l", "i", "c", "y">>,
        <<"l", "a", "w">>,
        <<"e", "u", " ", "a", "i", " ", "a", "c", "t">>,
        <<"s", "a", "f", "e", "t", "y">>,
        <<"g", "o", "v", "e", "r", "n", "a", "n", "c", "e">> >>],
     [topic |-> "AI Business", keywords |-> <<
        <<"i", "n", "v", "e", "s", "t", "m", "e", "n", "t">>,
        <<"f", "u", "n", "d", "i", "n", "g">>,
        <<"a", "c", "q", "u", "i", "s", "i", "t", "i", "o", "n">>,
        <<"v", "a", "l", "u", "a", "t", "i", "o", "n">>,
        <<"r", "e", "v", "e", "n", "u", "e">>,
        <<"m", "a", "r", "k", "e", "t">> >>],
     [topic |-> "AI Research", keywords |-> <<
        <<"p", "a", "p", "e", "r">>,
        <<"r", "e", "s", "e", "a", "r", "c", "h">>,
        <<"b", "e", "n", "c", "h", "m", "a", "r", "k">>,
        <<"a", "c", "c", "u", "r", "a", "c", "y">>,
        <<"p", "e", "r", "f", "o", "r", "m", "a", "n", "c", "e">>,
        <<"s", "t", "a", "t", "e", "-", "o", "f", "-", "t", "h", "e", "-", "a", "r", "t">> >>],
     [topic |-> "AI Hardware", keywords |-> <<
        <<"g", "p", "u">>,
        <<"t", "p", "u">>,
        <<"c", "h", "i", "p">>,
        <<"n", "v", "i", "d", "i", "a">>,
        <<"a", "m", "d">>,
        <<"i", "n", "t", "e", "l">>,
        <<"h", "a", "r", "d", "w", "a", "r", "e">>,
        <<"c", "o", "m", "p", "u", "t", "e">> >>],
     [topic |-> "AI Open Source", keywords |-> <<
        <<"o", "p", "e", "n", " ", "s", "o", "u", "r", "c", "e">>,
        <<"g", "i", "t", "h", "u", "b">>,
        <<"h", "u", "g", "g", "i", "n", "g", " ", "f", "a", "c", "e">>,
        <<"r", "e", "l", "e", "a", "s", "e">>,
        <<"l", "i", "b", "r", "a", "r", "y">>,
        <<"f", "r", "a", "m", "e", "w", "o", "r", "k">> >>],
     [topic |-> "AI Ethics", keywords |-> <<
        <<"b", "i", "a", "s">>,
        <<"e", "t", "h", "i", "c", "s">>,
        <<"f", "a", "i", "r", "n", "e", "s", "s">>,
        <<"p", "r", "i", "v", "a", "c", "y">>,
        <<"m", "i", "s", "u", "s", "e">>,
        <<"d", "a", "n", "g", "e", "r", "o", "u", "s">> >>] >>

DEFAULT_TOPIC == "AI General"

HIGH_PRIORITY_BRANDS == <<"OpenAI", "Google", "Anthropic", "Meta", "Microsoft", "NVIDIA">>

\* Scores are integers in units of 1/ScoreUnit: 1.0 is ScoreUnit.
ScoreUnit == 48
HoursPerDay == 24

\* the instant datetime.now() returns inside _calculate_score, in hours
EvalHour == 100

-----------------------------------------------------------------------------
(* TrendSelector._classify_topic *)

\* the inner loop: `for keyword in keywords: if keyword in text_lower`
AnyKeywordIn(keywords, text_lower) ==
    \E k \in 1..Len(keywords) : Contains(text_lower, keywords[k])

\* the outer loop returns at the first topic, in dict order, that matches
RECURSIVE classify_from(_, _)
classify_from(i, text_lower) ==
    IF i > Len(TOPIC_KEYWORDS) THEN DEFAULT_TOPIC
    ELSE IF AnyKeywordIn(TOPIC_KEYWORDS[i].keywords, text_lower)
         THEN TOPIC_KEYWORDS[i].topic
         ELSE classify_from(i + 1, text_lower)

\* variant: the keywords are looked for in the text as written
_classify_topic_CaseSensitive(text) == classify_from(1, text)

_classify_topic(text) == classify_from(1, lower(text))

-----------------------------------------------------------------------------
(* TrendSelector._calculate_score *)

\* datetime.strptime(value, "%Y-%m-%d %H:%M:%S"): succeeds only on a string
\* in exactly that format; "" and other formats raise ValueError, None
\* raises TypeError.
strptime(value) ==
    IF value.fmt = "ymd_hms" THEN [ok |-> TRUE, hour |-> value.hour]
    ELSE [ok |-> FALSE, hour |-> 0]

frequency_score(cluster) == Len(cluster) * ScoreUnit

\* variant: any non-empty brand earns the bonus
BrandBonus_AnyBrand(news) ==
    IF news.brand # "" THEN 2 * ScoreUnit ELSE 0

BrandBonus(news) ==
    IF news.brand # "" /\ InList(news.brand, HIGH_PRIORITY_BRANDS)
    THEN 2 * ScoreUnit ELSE 0

\* variant: the bonus is given once per distinct priority brand
brand_score_Distinct(cluster) ==
    2 * ScoreUnit * Cardinality({news.brand : news \in
        {n \in Range(cluster) : n.brand # "" /\ InList(n.brand, HIGH_PRIORITY_BRANDS)}})

RECURSIVE brand_score(_)
brand_score(cluster) ==
    IF cluster = <<>> THEN 0
    ELSE BrandBonus(Head(cluster)) + brand_score(Tail(cluster))

\* variant: hours_diff taken as pub_date - now
Recency_SignFlipped(news, now) ==
    LET pub_date == strptime(news.published_at) IN
    IF pub_date.ok
    THEN (Max(0, HoursPerDay - (pub_date.hour - now)) * ScoreUnit) \div (2 * HoursPerDay)
    ELSE ScoreUnit \div 4

\* max(0, 1 - hours_diff / 24) * 0.5, or 0.25 in the except branch
Recency(news, now) ==
    LET pub_date == strptime(news.published_at) IN
    IF pub_date.ok
    THEN (Max(0, HoursPerDay - (now - pub_date.hour)) * ScoreUnit) \div (2 * HoursPerDay)
    ELSE ScoreUnit \div 4

RECURSIVE recency_score(_, _)
recency_score(cluster, now) ==
    IF cluster = <<>> THEN 0
    ELSE Recency(Head(cluster), now) + recency_score(Tail(cluster), now)

_calculate_score(cluster, topic, now) ==
    frequency_score(cluster) + brand_score(cluster) + recency_score(cluster, now)

-----------------------------------------------------------------------------
(* TrendSelector._generate_description *)

\* description[:300]
DESCRIPTION_CAP == 300

\* the str a sequence of characters stands for
RECURSIVE Str(_)
Str(chars) == IF chars = <<>> THEN "" ELSE Head(chars) \o Str(Tail(chars))

\* sep.join(parts)
RECURSIVE join(_, _)
join(sep, parts) ==
    IF parts = <<>> THEN ""
    ELSE IF Len(parts) = 1 THEN parts[1]
    ELSE parts[1] \o sep \o join(sep, Tail(parts))

RECURSIVE brands_of(_)
brands_of(cluster) ==
    IF cluster = <<>> THEN {}
    ELSE (IF Head(cluster).brand # "" THEN {Head(cluster).brand} ELSE {})
         \cup brands_of(Tail(cluster))

\* the orders in which iterating over a set of str can give its elements;
\* which one it is changes from one interpreter process to the next
IterationOrders(S) ==
    {o \in [1..Cardinality(S) -> S] : \A i, j \in 1..Cardinality(S) : o[i] = o[j] => i = j}

\* variant: every title taken from cluster[:3] is joined
_generate_description_ThreeTitles(cluster, topic, brand_order) ==
    LET titles == [i \in 1..Len(SliceTo(cluster, 3)) |-> Str(cluster[i].title)]
        brands_str == IF brand_order # <<>> THEN join(", ", brand_order)
                      ELSE "Various companies"
    IN  SliceTo(topic \o ": " \o ToString(Len(cluster)) \o " novostei ot " \o brands_str
                \o ". Kluchevy sobytia: " \o join("; ", titles),
                DESCRIPTION_CAP)

\* the f-string and the cut; " novostei ot " and ". Kluchevy sobytia: " stand
\* letter for letter for the Cyrillic words of the source; brand_order is the
\* order in which the set `brands` is iterated
_generate_description(cluster, topic, brand_order) ==
    LET titles == [i \in 1..Len(SliceTo(cluster, 3)) |-> Str(cluster[i].title)]
        brands_str == IF brand_order # <<>> THEN join(", ", brand_order)
                      ELSE "Various companies"
    IN  SliceTo(topic \o ": " \o ToString(Len(cluster)) \o " novostei ot " \o brands_str
                \o ". Kluchevy sobytia: " \o join("; ", SliceTo(titles, 2)),
                DESCRIPTION_CAP)

\* the descriptions _generate_description can return for a cluster
Descriptions(cluster, topic) ==
    {_generate_description(cluster, topic, o) : o \in IterationOrders(brands_of(cluster))}

-----------------------------------------------------------------------------
(* TrendSelector.cluster_news *)

HasTopic(cl, topic) == \E i \in 1..Len(cl) : cl[i].topic = topic

\* clusters[topic].append(record) on a defaultdict(list): a new key goes last
\* variant: clusters[topic].insert(0, record)
AppendToCluster_Prepends(cl, topic, record) ==
    IF HasTopic(cl, topic)
    THEN [i \in 1..Len(cl) |->
            IF cl[i].topic = topic
            THEN [cl[i] EXCEPT !.news = <<record>> \o @]
            ELSE cl[i]]
    ELSE Append(cl, [topic |-> topic, news |-> <<record>>])

\* variant: clusters[topic] = [record]
AppendToCluster_Overwrites(cl, topic, record) ==
    IF HasTopic(cl, topic)
    THEN [i \in 1..Len(cl) |->
            IF cl[i].topic = topic
            THEN [cl[i] EXCEPT !.news = <<record>>]
            ELSE cl[i]]
    ELSE Append(cl, [topic |-> topic, news |-> <<record>>])

AppendToCluster(cl, topic, record) ==
    IF HasTopic(cl, topic)
    THEN [i \in 1..Len(cl) |->
            IF cl[i].topic = topic
            THEN [cl[i] EXCEPT !.news = Append(@, record)]
            ELSE cl[i]]
    ELSE Append(cl, [topic |-> topic, news |-> <<record>>])

RecordText(record) == record.title \o <<" ">> \o record.summary

RECURSIVE cluster_loop(_, _)
cluster_loop(recs, cl) ==
    IF recs = <<>> THEN cl
    ELSE cluster_loop(Tail(recs),
                      AppendToCluster(cl, _classify_topic(RecordText(Head(recs))), Head(recs)))

cluster_news(recs) == cluster_loop(recs, <<>>)

-----------------------------------------------------------------------------
(* TrendSelector.select_top_trends *)

MakeTrend(c, now) ==
    [title |-> c.topic,
     description |-> Descriptions(c.news, c.topic),
     score |-> _calculate_score(c.news, c.topic, now),
     count |-> Len(c.news),
     news |-> c.news]

\* variant: an element goes in front of the elements that score the same
InsertByScore_BeforeEquals(sorted, t) ==
    LET k == Cardinality({i \in 1..Len(sorted) : sorted[i].score > t.score}) IN
    SubSeq(sorted, 1, k) \o <<t>> \o SubSeq(sorted, k + 1, Len(sorted))

\* list.sort(key=score, reverse=True) is stable: an element goes behind every
\* element whose score is at least its own.
InsertByScore(sorted, t) ==
    LET k == Cardinality({i \in 1..Len(sorted) : sorted[i].score >= t.score}) IN
    SubSeq(sorted, 1, k) \o <<t>> \o SubSeq(sorted, k + 1, Len(sorted))

RECURSIVE SortByScoreDesc(_)
SortByScoreDesc(ts) ==
    IF ts = <<>> THEN <<>>
    ELSE InsertByScore(SortByScoreDesc(SubSeq(ts, 1, Len(ts) - 1)), ts[Len(ts)])

\* variant: the list is cut without having been sorted
select_top_trends_Unsorted(cl, n, now) ==
    SliceTo([i \in 1..Len(cl) |-> MakeTrend(cl[i], now)], n)

select_top_trends(cl, n, now) ==
    LET built == [i \in 1..Len(cl) |-> MakeTrend(cl[i], now)] IN
    SliceTo(SortByScoreDesc(built), n)

-----------------------------------------------------------------------------
(* Sample titles and summaries *)

T_GPT5 == <<"G", "P", "T", "-", "5">>
T_NEWLLM == <<"N", "e", "w", " ", "L", "L", "M">>
T_EULAW == <<"E", "U", " ", "l", "a", "w">>
T_WEATHER == <<"W", "e", "a", "t", "h", "e", "r">>
T_FLAW == <<"F", "L", "A", "W">>
T_CHIP == <<"c", "h", "i", "p">>
T_OPEN == <<"o", "p", "e", "n">>
T_SOURCE == <<"s", "o", "u", "r", "c", "e">>
T_AGENT == <<"A", "g", "e", "n", "t">>
T_BIAS == <<"b", "i", "a", "s">>

-----------------------------------------------------------------------------
(* News records the model draws its inputs from *)

\* a brand cell holding more text than a description has room for
RECURSIVE Times(_, _)
Times(s, n) == IF n = 0 THEN "" ELSE s \o Times(s, n - 1)
LongBrand == Times("Acme Robotics and Intelligent Systems, ", 8)

Timestamp(h) == [fmt |-> "ymd_hms", hour |-> h]   \* "%Y-%m-%d %H:%M:%S"
IsoTimestamp(h) == [fmt |-> "iso", hour |-> h]    \* "2024-02-17T10:00:00Z"
NoTimestamp == [fmt |-> "empty", hour |-> 0]      \* "" or a missing key

\* "GPT-5", from a priority brand, one hour old: AI Models
NewsA == [title |-> T_GPT5, summary |-> <<>>, brand |-> "OpenAI",
          published_at |-> Timestamp(EvalHour - 1)]
\* "New LLM", with a date strptime rejects: AI Models
NewsB == [title |-> T_NEWLLM, summary |-> <<>>, brand |-> "",
          published_at |-> IsoTimestamp(EvalHour - 1)]
\* "EU law", from a brand that is not a priority brand, twenty hours old:
\* AI Regulation
NewsC == [title |-> T_EULAW, summary |-> <<>>, brand |-> "Mistral",
          published_at |-> Timestamp(EvalHour - 20)]
\* "Weather", two hours old: no keyword, the default topic
NewsD == [title |-> T_WEATHER, summary |-> <<>>, brand |-> "",
          published_at |-> Timestamp(EvalHour - 2)]
\* "FLAW" / "chip", priority brand, twenty hours old: "law" comes before "chip"
NewsE == [title |-> T_FLAW, summary |-> T_CHIP, brand |-> "Google",
          published_at |-> Timestamp(EvalHour - 20)]
\* "open" / "source", a long unlisted brand, dated in the future: AI Open Source
NewsF == [title |-> T_OPEN, summary |-> T_SOURCE, brand |-> LongBrand,
          published_at |-> Timestamp(EvalHour + 32)]
\* "Agent", priority brand, older than a day: AI Agents
NewsG == [title |-> T_AGENT, summary |-> <<>>, brand |-> "NVIDIA",
          published_at |-> Timestamp(EvalHour - 30)]
\* "Agent", brand in another letter case, no date
NewsH == [title |-> T_AGENT, summary |-> <<>>, brand |-> "openai",
          published_at |-> NoTimestamp]

\* "chip", no brand, three hours old: AI Hardware
NewsI == [title |-> T_CHIP, summary |-> <<>>, brand |-> "",
          published_at |-> Timestamp(EvalHour - 3)]
\* "bias", no brand, four hours old: AI Ethics
NewsJ == [title |-> T_BIAS, summary |-> <<>>, brand |-> "",
          published_at |-> Timestamp(EvalHour - 4)]
\* two rows of today on topics of their own
MoreNews == <<NewsI, NewsJ>>

\* what cluster_news is given
Pool == {NewsA, NewsB, NewsC, NewsD, NewsE, NewsF, NewsG}
\* what a cluster can be extended with
ScoreItems == Pool \cup {NewsH}

TopNs == (0 - 1)..MaxTopN

NotScored == [set |-> FALSE, topic |-> "", cluster |-> <<>>, item |-> NewsA,
              before |-> 0, after |-> 0]

-----------------------------------------------------------------------------
(* Values a stage hands back (int, list, dict or None), in one record shape *)

None == [kind |-> "none", n |-> 0, list |-> <<>>,
         published |-> 0, failed |-> 0, total |-> 0]
IntResult(n) == [None EXCEPT !.kind = "int", !.n = n]
ListResult(l) == [None EXCEPT !.kind = "list", !.list = l]
DictResult(p, f, t) ==
    [None EXCEPT !.kind = "dict", !.published = p, !.failed = f, !.total = t]

\* a timestamp or cell that holds nothing yet
NotSet == 0 - 1

\* the calendar day datetime.now() falls on
Today == EvalHour \div HoursPerDay

\* f"{type(e).__name__}: {str(e)}" of the failure a stage can die of
StageError == "ConnectionError: service unavailable"

-----------------------------------------------------------------------------
(* storage/google_sheets.py *)

\* get_today_records: the rows whose date starts with today's date
IsToday(row) == row.date = Today
get_today_records(rows) == SelectSeq(rows, IsToday)

\* find_and_update on the column "trend": the first row whose trend equals the
\* value gets the updates; FALSE when no row matches
FirstRowWithTrend(rows, trend) ==
    IF \E i \in 1..Len(rows) : rows[i].trend = trend
    THEN CHOOSE i \in 1..Len(rows) :
            /\ rows[i].trend = trend
            /\ \A j \in 1..(i - 1) : rows[j].trend # trend
    ELSE 0

find_and_update(rows, trend, updates) ==
    LET k == FirstRowWithTrend(rows, trend) IN
    IF k = 0 THEN rows
    ELSE [rows EXCEPT ![k] =
            [f \in DOMAIN rows[k] |->
                IF f \in DOMAIN updates THEN updates[f] ELSE rows[k][f]]]

\* the elements of s whose flag is set, in order
RECURSIVE Kept(_, _)
Kept(s, flags) ==
    IF s = <<>> THEN <<>>
    ELSE (IF flags[1] THEN <<Head(s)>> ELSE <<>>)
         \o Kept(Tail(s), [i \in 1..(Len(s) - 1) |-> flags[i + 1]])

-----------------------------------------------------------------------------
(* config.py: the required keys, and the clients that read them *)

REQUIRED_KEYS == {"GOOGLE_SPREADSHEET_ID", "OPENROUTER_API_KEY"}

\* what the environment can hold when the Orchestrator is built: load_env()
\* reads the .env file and checks nothing
Environs == {REQUIRED_KEYS, REQUIRED_KEYS \ {"GOOGLE_SPREADSHEET_ID"},
             REQUIRED_KEYS \ {"OPENROUTER_API_KEY"}}

\* get_env(key, required=True) when the key has no value
get_env_error(key) == "ValueError: Required environment variable " \o key \o " is not set"

\* the required keys the constructor of a stage's agent reads, in order: every
\* agent builds the sheets client, the Sonar Scanner and the Bob Copywriter
\* build an OpenRouter client after it
KeysRead(name) ==
    IF name \in {"Sonar Scanner", "Bob Copywriter"}
    THEN <<"GOOGLE_SPREADSHEET_ID", "OPENROUTER_API_KEY">>
    ELSE <<"GOOGLE_SPREADSHEET_ID">>

Configured(name, env) == Range(KeysRead(name)) \subseteq env

FirstMissing(name, env) ==
    LET keys == KeysRead(name)
    IN  keys[CHOOSE i \in 1..Len(keys) :
                /\ keys[i] \notin env
                /\ \A j \in 1..(i - 1) : keys[j] \in env]

-----------------------------------------------------------------------------
(* What a stage operation can do: raise, or return with its effects *)

Raised(news, texts, tg, reran) ==
    [raised |-> TRUE, error |-> StageError, result |-> None, ok |-> FALSE,
     news |-> news, texts |-> texts, tg |-> tg, reran |-> reran]

Returned(result, ok, news, texts, tg, reran) ==
    [raised |-> FALSE, error |-> "", result |-> result, ok |-> ok,
     news |-> news, texts |-> texts, tg |-> tg, reran |-> reran]

-----------------------------------------------------------------------------
(* agents/rss_collector.py and agents/sonar_scanner.py *)

AsRow(news, day) ==
    [date |-> day, title |-> news.title, summary |-> news.summary,
     brand |-> news.brand, published_at |-> news.published_at]

\* what parsing the feeds can yield: RSS entries carry no brand
RssFound == {<<>>, <<AsRow(NewsB, Today)>>}
\* what the brand search can yield
SonarFound == {<<>>, <<AsRow(NewsA, Today)>>}

\* collect() / scan(): every entry found is appended to NewsRaw, the count of
\* successful appends is returned; 0 when nothing was found
CollectOutcomes(found, news, texts, tg) ==
    {Raised(news, texts, tg, FALSE)}
    \cup
    UNION { { Returned(IntResult(Len(Kept(entries, appended))),
                       \A i \in 1..Len(entries) : appended[i],
                       news \o Kept(entries, appended), texts, tg, FALSE) :
                appended \in [1..Len(entries) -> BOOLEAN] } :
            entries \in found }

run_rss_collector(news, texts, tg) == CollectOutcomes(RssFound, news, texts, tg)

run_sonar_scanner(news, texts, tg) == CollectOutcomes(SonarFound, news, texts, tg)

-----------------------------------------------------------------------------
(* TrendSelector.run and run_trend_selector *)

TOP_N == 5

\* trends.md: generate_trends_md opens it for writing and puts the trends in
NoFile == [written |-> FALSE, trends |-> <<>>]
FileOf(top) == [written |-> TRUE, trends |-> top]

NotRun == [set |-> FALSE, today |-> <<>>, raised |-> FALSE, clustered |-> FALSE,
           ranked |-> FALSE, file |-> NoFile, result |-> <<>>]

\* run() without the cut to five trends
TrendSelector_run_on_NoCap(today) ==
    IF today = <<>>
    THEN {[set |-> TRUE, today |-> today, raised |-> FALSE, clustered |-> FALSE,
           ranked |-> FALSE, file |-> NoFile, result |-> <<>>]}
    ELSE LET top == select_top_trends(cluster_news(today), Len(today), EvalHour) IN
         {[set |-> TRUE, today |-> today, raised |-> FALSE, clustered |-> TRUE,
           ranked |-> TRUE, file |-> IF top # <<>> THEN FileOf(top) ELSE NoFile,
           result |-> top]}

\* run() from the rows get_today_records returned: what it did and what came
\* of it.  generate_trends_md can fail to open trends.md, and then run()
\* raises with nothing written.
TrendSelector_run_on(today) ==
    IF today = <<>>
    THEN {[set |-> TRUE, today |-> today, raised |-> FALSE, clustered |-> FALSE,
           ranked |-> FALSE, file |-> NoFile, result |-> <<>>]}
    ELSE LET top == select_top_trends(cluster_news(today), TOP_N, EvalHour) IN
         {[set |-> TRUE, today |-> today, raised |-> FALSE, clustered |-> TRUE,
           ranked |-> TRUE, file |-> IF top # <<>> THEN FileOf(top) ELSE NoFile,
           result |-> top]}
         \cup
         (IF top # <<>>
          THEN {[set |-> TRUE, today |-> today, raised |-> TRUE, clustered |-> TRUE,
                 ranked |-> TRUE, file |-> NoFile, result |-> <<>>]}
          ELSE {})

\* what run() returns when it returns
TrendSelector_run(news) ==
    (CHOOSE r \in TrendSelector_run_on(get_today_records(news)) : ~r.raised).result

\* one TrendSelector() construction followed by run(): it raises (the client
\* cannot be built, trends.md cannot be written), or read_from_sheet swallows
\* an error and yields no rows, or the rows of today are ranked
SelectorRuns(news) ==
    { [raised |-> TRUE, ok |-> FALSE, list |-> <<>>],
      [raised |-> FALSE, ok |-> FALSE, list |-> <<>>],
      [raised |-> FALSE, ok |-> TRUE, list |-> TrendSelector_run(news)] }

run_trend_selector(news, texts, tg) ==
    { IF r.raised THEN Raised(news, texts, tg, FALSE)
      ELSE Returned(ListResult(r.list), r.ok, news, texts, tg, FALSE) :
        r \in SelectorRuns(news) }

-----------------------------------------------------------------------------
(* agents/copywriter.py *)

NUM_POSTS == 4

\* the text the LLM returns for a trend
PostText(title) == "Post about " \o title

DraftRow(title) ==
    [date |-> Today, trend |-> title, post_text |-> PostText(title),
     status |-> "draft", approved |-> "N", posted |-> "N",
     cover_image_url |-> "", posted_at |-> NotSet, message_id |-> NotSet]

\* generate_posts + save_to_sheets for the chosen fate of every handled trend:
\* "gen_fail" (the LLM returned nothing), "saved", "append_fail"
RECURSIVE SavedRows(_, _)
SavedRows(selected, fate) ==
    IF selected = <<>> THEN <<>>
    ELSE (IF fate[1] = "saved" THEN <<DraftRow(Head(selected).title)>> ELSE <<>>)
         \o SavedRows(Tail(selected), [i \in 1..(Len(selected) - 1) |-> fate[i + 1]])

BobCopywriter_run(trend_list, fate) ==
    IF trend_list = <<>> THEN <<>>
    ELSE SavedRows(SliceTo(trend_list, NUM_POSTS), fate)

PostFates == {"gen_fail", "saved", "append_fail"}

\* what llm_client.generate can hand back for a trend: None, an empty string,
\* or a text
ReplyKinds == {"none", "empty", "text"}
LlmReply(kind, trend) == IF kind = "text" THEN PostText(trend.title) ELSE ""

\* generate_posts: the prompts sent to the LLM and the posts made, in order
generate_posts(trend_list, num_posts, kinds) ==
    LET selected_trends == SliceTo(trend_list, num_posts)
        made == [i \in 1..Len(selected_trends) |->
                    [trend |-> selected_trends[i].title,
                     post_text |-> LlmReply(kinds[i], selected_trends[i])]]
    IN  [llm_calls |-> [i \in 1..Len(selected_trends) |-> selected_trends[i].title],
         posts |-> Kept(made, [i \in 1..Len(selected_trends) |-> made[i].post_text # ""])]

\* variant: a new post is saved as approved
RowOfPost_AutoApproved(post) ==
    [date |-> Today, trend |-> post.trend, post_text |-> post.post_text,
     status |-> "approved", approved |-> "Y", posted |-> "N",
     cover_image_url |-> "", posted_at |-> NotSet, message_id |-> NotSet]

RowOfPost(post) ==
    [date |-> Today, trend |-> post.trend, post_text |-> post.post_text,
     status |-> "draft", approved |-> "N", posted |-> "N",
     cover_image_url |-> "", posted_at |-> NotSet, message_id |-> NotSet]

\* variant: every post counts as saved, appended or not
save_to_sheets_CountsAll(posts, appended) ==
    [rows |-> Kept([i \in 1..Len(posts) |-> RowOfPost(posts[i])], appended),
     saved_count |-> Len(posts)]

\* save_to_sheets: the rows append_to_sheet added and the count of them
save_to_sheets(posts, appended) ==
    LET rows == Kept([i \in 1..Len(posts) |-> RowOfPost(posts[i])], appended)
    IN  [rows |-> rows, saved_count |-> Len(rows)]

\* run(trends) on the sheet as it is: what it asked, made, appended and returned
BobCopywriter_run_on(trend_list, texts, tg, kinds, appended) ==
    LET g == IF trend_list = <<>> THEN [llm_calls |-> <<>>, posts |-> <<>>]
             ELSE generate_posts(trend_list, NUM_POSTS, kinds)
        saved == IF g.posts = <<>> THEN [rows |-> <<>>, saved_count |-> 0]
                 ELSE save_to_sheets(g.posts, appended)
    IN  [name |-> "Bob Copywriter", trends |-> trend_list, kinds |-> kinds,
         llm_calls |-> g.llm_calls, posts |-> g.posts, appended |-> appended,
         rows |-> saved.rows, result |-> IntResult(saved.saved_count),
         texts_before |-> texts, tg_before |-> tg,
         texts_after |-> texts \o saved.rows, tg_after |-> tg]

\* run_copywriter: `if trends is None:` builds a TrendSelector and runs it
TrendsGiven(arg, news) ==
    IF arg.kind = "none" THEN SelectorRuns(news)
    ELSE {[raised |-> FALSE, ok |-> TRUE, list |-> arg.list]}

run_copywriter(arg, news, texts, tg) ==
    {Raised(news, texts, tg, FALSE)}
    \cup
    UNION { IF r.raised THEN {Raised(news, texts, tg, TRUE)}
            ELSE { Returned(IntResult(Len(BobCopywriter_run(r.list, fate))),
                            r.ok /\ \A i \in DOMAIN fate : fate[i] = "saved",
                            news, texts \o BobCopywriter_run(r.list, fate), tg,
                            arg.kind = "none") :
                     fate \in [1..Len(SliceTo(r.list, NUM_POSTS)) -> PostFates] } :
            r \in TrendsGiven(arg, news) }

-----------------------------------------------------------------------------
(* agents/cover_generator.py *)

\* f"data/{slug}.png": the slug is made of the trend and the post text
CoverPath(trend, post_text) == "data/" \o trend \o "-" \o post_text \o ".png"

NeedsCover(row) ==
    /\ row.status \in {"draft", "approved"}
    /\ row.cover_image_url = ""

get_posts_for_covers(texts) == SelectSeq(texts, NeedsCover)

CoverFates == {"no_image", "updated", "update_failed"}

\* the loop of run(): [texts, count] after the posts from i on
RECURSIVE CoverLoop(_, _, _, _, _)
CoverLoop(posts, fate, i, texts, count) ==
    IF i > Len(posts) THEN [texts |-> texts, count |-> count]
    ELSE IF posts[i].trend = "" \/ posts[i].post_text = ""
         THEN CoverLoop(posts, fate, i + 1, texts, count)
    ELSE IF fate[i] = "no_image"
         THEN CoverLoop(posts, fate, i + 1, texts, count)
    ELSE IF fate[i] = "updated"
         THEN CoverLoop(posts, fate, i + 1,
                        find_and_update(texts, posts[i].trend,
                            [cover_image_url |->
                                CoverPath(posts[i].trend, posts[i].post_text)]),
                        count + 1)
    ELSE CoverLoop(posts, fate, i + 1, texts, count + 1)

CoverGenerator_run(posts, fate, texts) == CoverLoop(posts, fate, 1, texts, 0)

\* run() on the sheet as it is: what it read, did and returned
CoverGenerator_run_on(texts, tg, readok, fate) ==
    LET posts == IF readok THEN get_posts_for_covers(texts) ELSE <<>>
        r == CoverGenerator_run(posts, fate, texts)
    IN  [name |-> "Cover Generator", readok |-> readok, posts |-> posts,
         fate |-> fate, result |-> IntResult(r.count),
         texts_before |-> texts, tg_before |-> tg,
         texts_after |-> r.texts, tg_after |-> tg]

CoverAllFine(posts, fate) ==
    \A i \in 1..Len(posts) :
        (posts[i].trend # "" /\ posts[i].post_text # "") => fate[i] = "updated"

run_cover_generator(news, texts, tg) ==
    {Raised(news, texts, tg, FALSE)}
    \cup
    UNION { LET posts == IF readok THEN get_posts_for_covers(texts) ELSE <<>> IN
            { Returned(IntResult(CoverGenerator_run(posts, fate, texts).count),
                       readok /\ CoverAllFine(posts, fate),
                       news, CoverGenerator_run(posts, fate, texts).texts, tg, FALSE) :
                fate \in [1..Len(posts) -> CoverFates] } :
            readok \in BOOLEAN }

-----------------------------------------------------------------------------
(* agents/publisher.py *)

UpperChar(c) ==
    IF \E i \in 1..Len(LowerChars) : LowerChars[i] = c
    THEN UpperChars[CHOOSE i \in 1..Len(LowerChars) : LowerChars[i] = c]
    ELSE c

\* str.upper() of a cell of at most one character
upper(cell) == IF cell = "" THEN "" ELSE UpperChar(cell)

\* variant: the two cells are compared without upper()
ReadyToPublish_CaseSensitive(row) ==
    /\ row.approved = "Y"
    /\ row.posted = "N"

ReadyToPublish(row) ==
    /\ upper(row.approved) = "Y"
    /\ upper(row.posted) = "N"

Approved(row) == upper(row.approved) = "Y"

\* variant: the filter looks at the approved cell only
get_posts_for_publish_ApprovedOnly(texts) == SelectSeq(texts, Approved)

get_posts_for_publish(texts) == SelectSeq(texts, ReadyToPublish)

SendFates == {"sent", "send_failed", "sent_update_failed"}

Message(post, id) ==
    [text |-> post.post_text, photo |-> post.cover_image_url, message_id |-> id,
     trend |-> post.trend]

\* the loop of run(): the sheet, the channel, the two counters and the calls
\* of update_post_status made, after the posts from i on
RECURSIVE PublishLoop(_, _, _, _, _, _, _, _)
PublishLoop(posts, fate, i, texts, tg, published, failed, updates) ==
    IF i > Len(posts)
    THEN [texts |-> texts, tg |-> tg, published |-> published, failed |-> failed,
          updates |-> updates]
    ELSE IF posts[i].post_text = "" \/ fate[i] = "send_failed"
         THEN PublishLoop(posts, fate, i + 1, texts, tg, published, failed + 1, updates)
    ELSE IF fate[i] = "sent"
         THEN PublishLoop(posts, fate, i + 1,
                          find_and_update(texts, posts[i].trend,
                              [posted |-> "Y", posted_at |-> Today,
                               message_id |-> Len(tg) + 1]),
                          Append(tg, Message(posts[i], Len(tg) + 1)),
                          published + 1, failed,
                          Append(updates, [post |-> i, trend |-> posts[i].trend,
                                           message_id |-> Len(tg) + 1]))
    ELSE PublishLoop(posts, fate, i + 1, texts,
                     Append(tg, Message(posts[i], Len(tg) + 1)),
                     published + 1, failed,
                     Append(updates, [post |-> i, trend |-> posts[i].trend,
                                      message_id |-> Len(tg) + 1]))

Publisher_run(posts, fate, texts, tg) == PublishLoop(posts, fate, 1, texts, tg, 0, 0, <<>>)

\* variant: a post that was not sent is left out of the count of failures
Publisher_run_on_FailuresDropped(texts, tg, connected, readok, fate) ==
    LET posts == IF connected /\ readok THEN get_posts_for_publish(texts) ELSE <<>>
        r == Publisher_run(posts, fate, texts, tg)
    IN  [name |-> "Publisher", connected |-> connected, posts |-> posts,
         fate |-> fate, updates |-> r.updates,
         result |-> IF posts = <<>> THEN DictResult(0, 0, 0)
                    ELSE DictResult(r.published, 0, Len(posts)),
         texts_before |-> texts, tg_before |-> tg,
         texts_after |-> r.texts, tg_after |-> r.tg]

\* run() on the sheet and the channel as they are: what it read, did and
\* returned.  connected is what test_connection() answers, readok is FALSE
\* when read_from_sheet swallows an error and yields no rows.
Publisher_run_on(texts, tg, connected, readok, fate) ==
    LET posts == IF connected /\ readok THEN get_posts_for_publish(texts) ELSE <<>>
        r == Publisher_run(posts, fate, texts, tg)
    IN  [name |-> "Publisher", connected |-> connected, posts |-> posts,
         fate |-> fate, updates |-> r.updates,
         result |-> IF posts = <<>> THEN DictResult(0, 0, 0)
                    ELSE DictResult(r.published, r.failed, Len(posts)),
         texts_before |-> texts, tg_before |-> tg,
         texts_after |-> r.texts, tg_after |-> r.tg]

PublishAllFine(posts, fate) ==
    \A i \in 1..Len(posts) : posts[i].post_text # "" => fate[i] = "sent"

run_publisher(news, texts, tg) ==
    { Raised(news, texts, tg, FALSE),
      \* test_connection() is False
      Returned(DictResult(0, 0, 0), FALSE, news, texts, tg, FALSE) }
    \cup
    UNION { LET posts == IF readok THEN get_posts_for_publish(texts) ELSE <<>> IN
            { LET r == Publisher_run(posts, fate, texts, tg) IN
              Returned(DictResult(r.published, r.failed, Len(posts)),
                       readok /\ PublishAllFine(posts, fate),
                       news, r.texts, r.tg, FALSE) :
                fate \in [1..Len(posts) -> SendFates] } :
            readok \in BOOLEAN }

-----------------------------------------------------------------------------
(* main.py: Orchestrator *)

STAGES == <<"RSS Collector", "Sonar Scanner", "Trend Selector",
            "Bob Copywriter", "Cover Generator", "Publisher">>

\* Orchestrator.__init__
NewStats == [started_at |-> NotSet, finished_at |-> NotSet,
             agents |-> <<>>, errors |-> <<>>]

\* stats["agents"][name] = entry: a dict keeps the place of a key it has
SetAgent(agents, name, entry) ==
    IF \E i \in 1..Len(agents) : agents[i].name = name
    THEN [i \in 1..Len(agents) |->
            IF agents[i].name = name THEN [name |-> name, entry |-> entry]
            ELSE agents[i]]
    ELSE Append(agents, [name |-> name, entry |-> entry])

HasAgent(st, name) == \E i \in 1..Len(st.agents) : st.agents[i].name = name

\* stats["agents"].get(name, {})
AgentEntry(st, name) ==
    st.agents[CHOOSE i \in 1..Len(st.agents) : st.agents[i].name = name].entry

\* variant: the except branch puts the new entry at the head of errors
run_agent_stats_ErrorsPrepended(st, name, o, start_time, end_time) ==
    IF ~o.raised
    THEN [st EXCEPT !.agents = SetAgent(@, name,
            [status |-> "success", result |-> o.result,
             duration_sec |-> end_time - start_time,
             started_at |-> start_time, finished_at |-> end_time])]
    ELSE [st EXCEPT
            !.agents = SetAgent(@, name,
                [status |-> "error", error |-> o.error,
                 duration_sec |-> end_time - start_time,
                 started_at |-> start_time, finished_at |-> end_time]),
            !.errors = <<[agent |-> name, error |-> o.error]>> \o @]

\* variant: the failure is recorded in errors but the entry is written as a success
run_agent_stats_ErrorAsSuccess(st, name, o, start_time, end_time) ==
    IF ~o.raised
    THEN [st EXCEPT !.agents = SetAgent(@, name,
            [status |-> "success", result |-> o.result,
             duration_sec |-> end_time - start_time,
             started_at |-> start_time, finished_at |-> end_time])]
    ELSE [st EXCEPT
            !.agents = SetAgent(@, name,
                [status |-> "success", result |-> None,
                 duration_sec |-> end_time - start_time,
                 started_at |-> start_time, finished_at |-> end_time]),
            !.errors = Append(@, [agent |-> name, error |-> o.error])]

\* variant: a failure is recorded in agents but not appended to errors
run_agent_stats_NoErrorEntry(st, name, o, start_time, end_time) ==
    IF ~o.raised
    THEN [st EXCEPT !.agents = SetAgent(@, name,
            [status |-> "success", result |-> o.result,
             duration_sec |-> end_time - start_time,
             started_at |-> start_time, finished_at |-> end_time])]
    ELSE [st EXCEPT
            !.agents = SetAgent(@, name,
                [status |-> "error", error |-> o.error,
                 duration_sec |-> end_time - start_time,
                 started_at |-> start_time, finished_at |-> end_time])]

\* _run_agent: what it writes to self.stats in the try and the except branch
run_agent_stats(st, name, o, start_time, end_time) ==
    IF ~o.raised
    THEN [st EXCEPT !.agents = SetAgent(@, name,
            [status |-> "success", result |-> o.result,
             duration_sec |-> end_time - start_time,
             started_at |-> start_time, finished_at |-> end_time])]
    ELSE [st EXCEPT
            !.agents = SetAgent(@, name,
                [status |-> "error", error |-> o.error,
                 duration_sec |-> end_time - start_time,
                 started_at |-> start_time, finished_at |-> end_time]),
            !.errors = Append(@, [agent |-> name, error |-> o.error])]

\* _run_agent: what it returns
run_agent_result(o) == IF o.raised THEN None ELSE o.result

\* _run_agent(name, func, *args) for one thing `o` the stage operation does;
\* the stage takes one tick of the clock
RunAgent(name, arg, o) ==
    /\ stats' = run_agent_stats(stats, name, o, clock, clock + 1)
    /\ clock' = clock + 1
    /\ NewsRaw' = o.news
    /\ Texts' = o.texts
    /\ telegram' = o.tg
    /\ log' = log \o <<[ev |-> "start", name |-> name], [ev |-> "end", name |-> name]>>
    /\ calls' = Append(calls,
          [name |-> name, arg |-> arg, raised |-> o.raised, ok |-> o.ok,
           result |-> o.result, returned |-> run_agent_result(o),
           reran |-> o.reran, error |-> o.error,
           errors_before |-> stats.errors,
           news_before |-> NewsRaw, texts_before |-> Texts, tg_before |-> telegram])
    /\ UNCHANGED <<returned, run_no, environ, tpc, records, clusters, top_n, top_trends, scored, ran>>

\* variant: the summary reads every result with len()
SummaryRaises_LenOfAll(st) ==
    \E i \in 1..Len(st.agents) :
        /\ "result" \in DOMAIN st.agents[i].entry
        /\ st.agents[i].entry.result.kind \in {"int", "none"}

\* _print_summary raises when len() is applied to a result that has no length
\* or .get() to a non-empty result that is no dict
SummaryRaises(st) ==
    \/ /\ HasAgent(st, "Trend Selector")
       /\ "result" \in DOMAIN AgentEntry(st, "Trend Selector")
       /\ AgentEntry(st, "Trend Selector").result.kind \in {"int", "none"}
    \/ /\ HasAgent(st, "Publisher")
       /\ "result" \in DOMAIN AgentEntry(st, "Publisher")
       /\ \/ /\ AgentEntry(st, "Publisher").result.kind = "int"
             /\ AgentEntry(st, "Publisher").result.n # 0
          \/ /\ AgentEntry(st, "Publisher").result.kind = "list"
             /\ AgentEntry(st, "Publisher").result.list # <<>>

-----------------------------------------------------------------------------
(* Specification Spec: one Orchestrator running run_pipeline *)

\* rows of earlier days the Texts sheet can hold when the run starts
OldRow(trend, post_text, status, approved, posted, cover) ==
    [date |-> Today - 1, trend |-> trend, post_text |-> post_text,
     status |-> status, approved |-> approved, posted |-> posted,
     cover_image_url |-> cover,
     posted_at |-> IF posted = "Y" THEN Today - 1 ELSE NotSet,
     message_id |-> NotSet]

OldTexts ==
    { OldRow("AI Models", "Old post", "draft", "N", "N", ""),
      OldRow("AI Models", "Approved post", "approved", "y", "n", "data/old.png"),
      OldRow("AI Agents", "Posted post", "published", "Y", "Y", "data/old.png"),
      OldRow("AI Agents", "", "approved", "Y", "N", "") }

\* what the NewsRaw sheet can hold when the run starts: nothing, a row
\* collected earlier today, a row of yesterday
OldNews == {<<>>, <<AsRow(NewsC, Today)>>, <<AsRow(NewsD, Today - 1)>>}

TrendIdle ==
    /\ tpc = "idle"
    /\ records = <<>>
    /\ clusters = <<>>
    /\ top_n = 0
    /\ top_trends = <<>>
    /\ scored = NotScored
    /\ ran = NotRun

Init ==
    /\ TrendIdle
    /\ pc = "not_started"
    /\ stats = NewStats
    /\ trends = None
    /\ returned = <<>>
    /\ clock = 0
    /\ run_no = 1
    /\ environ \in Environs
    /\ NewsRaw \in OldNews
    /\ Texts \in SeqsUpTo(OldTexts, MaxOldTexts)
    /\ telegram = <<>>
    /\ log = <<>>
    /\ calls = <<>>

\* run_<stage>() first builds its agent; a constructor that raises (a client
\* cannot be set up, or get_env finds a required key without a value) has
\* touched neither sheet nor the channel
ConstructorRaises(name) ==
    IF Configured(name, environ)
    THEN Raised(NewsRaw, Texts, telegram, FALSE)
    ELSE [Raised(NewsRaw, Texts, telegram, FALSE) EXCEPT
            !.error = get_env_error(FirstMissing(name, environ))]

\* self.stats["started_at"] = datetime.now().isoformat()
MarkStarted ==
    /\ pc = "not_started"
    /\ stats' = [stats EXCEPT !.started_at = clock]
    /\ log' = Append(log, [ev |-> "started_at", name |-> ""])
    /\ pc' = "RSS Collector"
    /\ UNCHANGED <<trends, returned, clock, run_no, environ, NewsRaw, Texts, telegram, calls>>
    /\ UNCHANGED tvars

RunRssCollector ==
    /\ pc = "RSS Collector"
    /\ \/ RunAgent("RSS Collector", None, ConstructorRaises("RSS Collector"))
       \/ /\ Configured("RSS Collector", environ)
          /\ \E o \in run_rss_collector(NewsRaw, Texts, telegram) :
                RunAgent("RSS Collector", None, o)
    /\ pc' = "Sonar Scanner"
    /\ UNCHANGED trends

RunSonarScanner ==
    /\ pc = "Sonar Scanner"
    /\ \/ RunAgent("Sonar Scanner", None, ConstructorRaises("Sonar Scanner"))
       \/ /\ Configured("Sonar Scanner", environ)
          /\ \E o \in run_sonar_scanner(NewsRaw, Texts, telegram) :
                RunAgent("Sonar Scanner", None, o)
    /\ pc' = "Trend Selector"
    /\ UNCHANGED trends

RunTrendSelector ==
    /\ pc = "Trend Selector"
    /\ \/ /\ RunAgent("Trend Selector", None, ConstructorRaises("Trend Selector"))
          /\ trends' = None
       \/ /\ Configured("Trend Selector", environ)
          /\ \E o \in run_trend_selector(NewsRaw, Texts, telegram) :
                /\ RunAgent("Trend Selector", None, o)
                /\ trends' = run_agent_result(o)
    /\ pc' = "Bob Copywriter"

\* variant: the stage is skipped when the upstream stage gave no trends
RunCopywriter_SkippedWithoutTrends ==
    /\ pc = "Bob Copywriter"
    /\ IF trends.kind = "none"
       THEN UNCHANGED <<stats, clock, run_no, environ, NewsRaw, Texts, telegram, log, calls,
                        returned, tpc, records, clusters, top_n, top_trends, scored, ran>>
       ELSE \E o \in run_copywriter(trends, NewsRaw, Texts, telegram) :
               RunAgent("Bob Copywriter", trends, o)
    /\ pc' = "Cover Generator"
    /\ UNCHANGED trends

RunCopywriter ==
    /\ pc = "Bob Copywriter"
    /\ \/ RunAgent("Bob Copywriter", trends, ConstructorRaises("Bob Copywriter"))
       \/ /\ Configured("Bob Copywriter", environ)
          /\ \E o \in run_copywriter(trends, NewsRaw, Texts, telegram) :
                RunAgent("Bob Copywriter", trends, o)
    /\ pc' = "Cover Generator"
    /\ UNCHANGED trends

RunCoverGenerator ==
    /\ pc = "Cover Generator"
    /\ \/ RunAgent("Cover Generator", None, ConstructorRaises("Cover Generator"))
       \/ /\ Configured("Cover Generator", environ)
          /\ \E o \in run_cover_generator(NewsRaw, Texts, telegram) :
                RunAgent("Cover Generator", None, o)
    /\ pc' = "Publisher"
    /\ UNCHANGED trends

RunPublisher ==
    /\ pc = "Publisher"
    /\ \/ RunAgent("Publisher", None, ConstructorRaises("Publisher"))
       \/ /\ Configured("Publisher", environ)
          /\ \E o \in run_publisher(NewsRaw, Texts, telegram) :
                RunAgent("Publisher", None, o)
    /\ pc' = "finished_at"
    /\ UNCHANGED trends

\* self.stats["finished_at"] = datetime.now().isoformat()
MarkFinished ==
    /\ pc = "finished_at"
    /\ stats' = [stats EXCEPT !.finished_at = clock]
    /\ log' = Append(log, [ev |-> "finished_at", name |-> ""])
    /\ pc' = "summary"
    /\ UNCHANGED <<trends, returned, clock, run_no, environ, NewsRaw, Texts, telegram, calls>>
    /\ UNCHANGED tvars

\* self._print_summary(): an exception in it leaves run_pipeline
PrintSummary ==
    /\ pc = "summary"
    /\ log' = Append(log, [ev |-> "summary", name |-> ""])
    /\ pc' = IF SummaryRaises(stats) THEN "raised" ELSE "return"
    /\ UNCHANGED <<stats, trends, returned, clock, run_no, environ, NewsRaw, Texts, telegram, calls>>
    /\ UNCHANGED tvars

\* return self.stats
Return ==
    /\ pc = "return"
    /\ returned' = <<stats>>
    /\ pc' = "completed"
    /\ UNCHANGED <<stats, trends, clock, run_no, environ, NewsRaw, Texts, telegram, log, calls>>
    /\ UNCHANGED tvars

Next ==
    \/ MarkStarted
    \/ RunRssCollector
    \/ RunSonarScanner
    \/ RunTrendSelector
    \/ RunCopywriter
    \/ RunCoverGenerator
    \/ RunPublisher
    \/ MarkFinished
    \/ PrintSummary
    \/ Return

Spec == Init /\ [][Next]_vars

\* run_pipeline is straight-line code: while a step is left, it is taken
SpecLive == Spec /\ WF_vars(Next)

-----------------------------------------------------------------------------
(* Specification SpecAgain: a caller that keeps its Orchestrator *)

\* orchestrator.run_pipeline() once more on the same object, after a run whose
\* stages all raised (both sheets and the channel are as that run found
\* them): self.stats is the dictionary __init__ made, `trends` is a local of
\* the new call, and the histories start over
RunPipelineAgain ==
    /\ pc = "completed"
    /\ run_no < MaxRuns
    /\ \A i \in 1..Len(calls) : calls[i].raised
    /\ run_no' = run_no + 1
    /\ pc' = "not_started"
    /\ trends' = None
    /\ log' = <<>>
    /\ calls' = <<>>
    /\ UNCHANGED <<stats, returned, clock, environ, NewsRaw, Texts, telegram>>
    /\ UNCHANGED tvars

NextAgain == Next \/ RunPipelineAgain

SpecAgain == Init /\ [][NextAgain]_vars

-----------------------------------------------------------------------------
(* The orchestrator's variables while only the TrendSelector is exercised *)

PipelineIdle ==
    /\ pc = "idle"
    /\ stats = NewStats
    /\ trends = None
    /\ returned = <<>>
    /\ clock = 0
    /\ run_no = 1
    /\ environ = REQUIRED_KEYS
    /\ NewsRaw = <<>>
    /\ Texts = <<>>
    /\ telegram = <<>>
    /\ log = <<>>
    /\ calls = <<>>

-----------------------------------------------------------------------------
(* Specification SpecTrend: a caller of TrendSelector's methods *)

InitTrend ==
    /\ tpc = "input"
    /\ records \in SeqsUpTo(Pool, MaxRecords)
    /\ clusters = <<>>
    /\ top_n = 0
    /\ top_trends = <<>>
    /\ scored = NotScored
    /\ ran = NotRun
    /\ PipelineIdle

ClusterNews ==
    /\ tpc = "input"
    /\ clusters' = cluster_news(records)
    /\ tpc' = "clustered"
    /\ UNCHANGED <<records, top_n, top_trends, scored, ran>>
    /\ UNCHANGED pvars

SelectTopTrends ==
    /\ tpc = "clustered"
    /\ \E n \in TopNs :
        /\ top_n' = n
        /\ top_trends' = select_top_trends(clusters, n, EvalHour)
    /\ tpc' = "ranked"
    /\ UNCHANGED <<records, clusters, scored, ran>>
    /\ UNCHANGED pvars

\* _calculate_score on a cluster, and on the same cluster with one more item
CalculateScore ==
    /\ tpc = "clustered"
    /\ \E k \in 1..Len(clusters), item \in ScoreItems :
        scored' = [set |-> TRUE,
                   topic |-> clusters[k].topic,
                   cluster |-> clusters[k].news,
                   item |-> item,
                   before |-> _calculate_score(clusters[k].news, clusters[k].topic, EvalHour),
                   after |-> _calculate_score(Append(clusters[k].news, item),
                                              clusters[k].topic, EvalHour)]
    /\ tpc' = "scored"
    /\ UNCHANGED <<records, clusters, top_n, top_trends, ran>>
    /\ UNCHANGED pvars

\* TrendSelector.run when get_today_records yields `records`, alone or followed
\* by two more rows of today
Run ==
    /\ tpc = "input"
    /\ \E more \in {<<>>, MoreNews} :
        \E r \in TrendSelector_run_on(records \o more) : ran' = r
    /\ tpc' = "ran"
    /\ UNCHANGED <<records, clusters, top_n, top_trends, scored>>
    /\ UNCHANGED pvars

NextTrend == ClusterNews \/ SelectTopTrends \/ CalculateScore \/ Run

SpecTrend == InitTrend /\ [][NextTrend]_vars

-----------------------------------------------------------------------------
(* Specification SpecStages: the stages' run() methods called one after     *)
(* another on the same Texts sheet and channel, with nobody else editing    *)
(* the sheet.  `ran` keeps what the last run read, did and returned, and    *)
(* `clock` counts the runs.                                                 *)

\* a ranking of seven topics, as select_top_trends makes it
RankedSample ==
    select_top_trends(
        cluster_news(<<NewsA, NewsC, NewsD, NewsF, NewsG, NewsI, NewsJ>>),
        MaxTrends + 2, EvalHour)

\* the trends the Copywriter can be given: the first k of the ranking
TrendLists == {SliceTo(RankedSample, k) : k \in 0..MaxTrends}

\* the stages are about to be run on one of `sheets`, the Copywriter with one
\* of `trend_lists`
StagesStart(trend_lists, sheets) ==
    /\ tpc = "stages"
    /\ records = <<>>
    /\ clusters = <<>>
    /\ top_n = 0
    /\ top_trends \in trend_lists
    /\ scored = NotScored
    /\ ran = NotRun
    /\ pc = "idle"
    /\ stats = NewStats
    /\ trends = None
    /\ returned = <<>>
    /\ clock = 0
    /\ run_no = 1
    /\ environ = REQUIRED_KEYS
    /\ NewsRaw = <<>>
    /\ Texts \in sheets
    /\ telegram = <<>>
    /\ log = <<>>
    /\ calls = <<>>

InitStages ==
    StagesStart({l \in TrendLists : Len(l) <= 1},
                SeqsUpTo(OldTexts, MaxSheetRows))

\* a stage can be run once more: the sheet is small enough to follow
MayRunStage ==
    /\ tpc = "stages"
    /\ clock < MaxStageRuns
    /\ Len(Texts) <= MaxSheetRows

StageRan(t) ==
    /\ ran' = t
    /\ clock' = clock + 1
    /\ Texts' = t.texts_after
    /\ telegram' = t.tg_after
    /\ UNCHANGED <<pc, stats, trends, returned, run_no, environ, NewsRaw, log, calls>>
    /\ UNCHANGED <<tpc, records, clusters, top_n, top_trends, scored>>

\* Publisher().run()
PublisherRuns ==
    /\ MayRunStage
    /\ \E connected, readok \in BOOLEAN :
        \E fate \in [1..Len(IF connected /\ readok THEN get_posts_for_publish(Texts)
                            ELSE <<>>) -> SendFates] :
            StageRan(Publisher_run_on(Texts, telegram, connected, readok, fate))

\* BobCopywriter().run(trends) with the trends of the day
CopywriterRuns ==
    /\ MayRunStage
    /\ \E kinds \in [1..Len(SliceTo(top_trends, NUM_POSTS)) -> ReplyKinds] :
        \E appended \in [1..Len(generate_posts(top_trends, NUM_POSTS, kinds).posts)
                            -> BOOLEAN] :
            StageRan(BobCopywriter_run_on(top_trends, Texts, telegram, kinds, appended))

\* CoverGenerator().run()
CoverGeneratorRuns ==
    /\ MayRunStage
    /\ \E readok \in BOOLEAN :
        \E fate \in [1..Len(IF readok THEN get_posts_for_covers(Texts) ELSE <<>>)
                        -> CoverFates] :
            StageRan(CoverGenerator_run_on(Texts, telegram, readok, fate))

NextStages == PublisherRuns \/ CopywriterRuns \/ CoverGeneratorRuns

SpecStages == InitStages /\ [][NextStages]_vars

-----------------------------------------------------------------------------
(* Specification SpecCopywriter: one call of BobCopywriter.run with up to   *)
(* MaxTrends trends                                                         *)

InitCopywriter == StagesStart(TrendLists, SeqsUpTo(OldTexts, MaxOldTexts))

CopywriterRunsOnce ==
    /\ clock = 0
    /\ CopywriterRuns

SpecCopywriter == InitCopywriter /\ [][CopywriterRunsOnce]_vars

-----------------------------------------------------------------------------
(* Specification SpecOverlap: the Publisher stages of two pipeline runs      *)
(* (run_pipeline_wrapper twice, say the scheduled run and a manual one) on   *)
(* the same sheet and channel, one request to the sheet or the channel at a  *)
(* time.  `ran` holds, for each run, where its Publisher.run() is, the posts *)
(* it read, the post it is at, what became of the posts before it and the    *)
(* messages it delivered.                                                    *)

PipelineRuns == {1, 2}

NotStarted == [pc |-> "start", posts |-> <<>>, i |-> 1, fates |-> <<>>, sent |-> <<>>]

InitOverlap ==
    /\ tpc = "overlap"
    /\ records = <<>>
    /\ clusters = <<>>
    /\ top_n = 0
    /\ top_trends = <<>>
    /\ scored = NotScored
    /\ ran = [p \in PipelineRuns |-> NotStarted]
    /\ pc = "idle"
    /\ stats = NewStats
    /\ trends = None
    /\ returned = <<>>
    /\ clock = 0
    /\ run_no = 1
    /\ environ = REQUIRED_KEYS
    /\ NewsRaw = <<>>
    /\ Texts \in SeqsUpTo(OldTexts, MaxSheetRows)
    /\ telegram = <<>>
    /\ log = <<>>
    /\ calls = <<>>

OverlapOnly ==
    UNCHANGED <<pc, stats, trends, returned, clock, run_no, environ, NewsRaw, log,
                calls, tpc, records, clusters, top_n, top_trends, scored>>

\* the for loop moves on to the next post, or run() returns
NextPost(r, fate) ==
    [r EXCEPT !.fates = Append(@, fate),
              !.i = @ + 1,
              !.pc = IF r.i + 1 > Len(r.posts) THEN "done" ELSE "publishing"]

\* test_connection() and get_posts_for_publish(): nothing keeps a run from
\* reading the sheet while another run is publishing
ReadPosts(p) ==
    /\ tpc = "overlap"
    /\ ran[p].pc = "start"
    /\ \E connected \in BOOLEAN :
        LET posts == IF connected THEN get_posts_for_publish(Texts) ELSE <<>> IN
        ran' = [ran EXCEPT ![p] = [@ EXCEPT !.posts = posts,
                    !.pc = IF posts = <<>> THEN "done" ELSE "publishing"]]
    /\ UNCHANGED <<Texts, telegram>>
    /\ OverlapOnly

\* variant: before sending, the row is read again and a post that is no
\* longer waiting is skipped
PublishPost_ReadsAgain(p) ==
    /\ tpc = "overlap"
    /\ ran[p].pc = "publishing"
    /\ LET post == ran[p].posts[ran[p].i] IN
       IF post.post_text = ""
       THEN /\ ran' = [ran EXCEPT ![p] = NextPost(@, "no_text")]
            /\ UNCHANGED telegram
       ELSE IF ~InList(post, get_posts_for_publish(Texts))
       THEN /\ ran' = [ran EXCEPT ![p] = NextPost(@, "skipped")]
            /\ UNCHANGED telegram
       ELSE \/ /\ ran' = [ran EXCEPT ![p] = NextPost(@, "send_failed")]
               /\ UNCHANGED telegram
            \/ /\ telegram' = Append(telegram, Message(post, Len(telegram) + 1))
               /\ ran' = [ran EXCEPT ![p] =
                            [@ EXCEPT !.pc = "updating",
                                      !.sent = Append(@, Len(telegram) + 1)]]
    /\ UNCHANGED Texts
    /\ OverlapOnly

\* publish_post(post) for the post the loop is at: the post as it was read is
\* sent, whatever the sheet says by now
PublishPost(p) ==
    /\ tpc = "overlap"
    /\ ran[p].pc = "publishing"
    /\ LET post == ran[p].posts[ran[p].i] IN
       IF post.post_text = ""
       THEN /\ ran' = [ran EXCEPT ![p] = NextPost(@, "no_text")]
            /\ UNCHANGED telegram
       ELSE \/ /\ ran' = [ran EXCEPT ![p] = NextPost(@, "send_failed")]
               /\ UNCHANGED telegram
            \/ /\ telegram' = Append(telegram, Message(post, Len(telegram) + 1))
               /\ ran' = [ran EXCEPT ![p] =
                            [@ EXCEPT !.pc = "updating",
                                      !.sent = Append(@, Len(telegram) + 1)]]
    /\ UNCHANGED Texts
    /\ OverlapOnly

\* update_post_status(trend, message_id) after a successful send
UpdatePostStatus(p) ==
    /\ tpc = "overlap"
    /\ ran[p].pc = "updating"
    /\ LET post == ran[p].posts[ran[p].i]
           message_id == ran[p].sent[Len(ran[p].sent)]
       IN  \/ Texts' = find_and_update(Texts, post.trend,
                           [posted |-> "Y", posted_at |-> Today,
                            message_id |-> message_id])
           \/ Texts' = Texts
    /\ ran' = [ran EXCEPT ![p] = NextPost(@, "sent")]
    /\ UNCHANGED telegram
    /\ OverlapOnly

NextOverlap ==
    \E p \in PipelineRuns : ReadPosts(p) \/ PublishPost(p) \/ UpdatePostStatus(p)

SpecOverlap == InitOverlap /\ [][NextOverlap]_vars

-----------------------------------------------------------------------------
(* storage/perplexity_client.py: PerplexitySonarClient._make_request,        *)
(* specification SpecSonar: one call, one pass of the for loop at a time.    *)
(* `ran` holds where the call is, the number of the pass, the replies        *)
(* requests.post got so far, the sleeps made and what the call returned.     *)

MAX_RETRIES == 3
RETRY_DELAY == 2

\* response.json() of a successful response
JsonBody == [None EXCEPT !.kind = "json"]

DigitChars == <<"0", "1", "2", "3", "4", "5", "6", "7", "8", "9">>

IsDigits(s) ==
    /\ s # ""
    /\ \A i \in 1..Len(s) : \E d \in 1..10 : SubSeq(s, i, i) = DigitChars[d]

RECURSIVE DigitsValue(_)
DigitsValue(s) ==
    IF s = "" THEN 0
    ELSE 10 * DigitsValue(SubSeq(s, 1, Len(s) - 1))
         + (CHOOSE d \in 1..10 : SubSeq(s, Len(s), Len(s)) = DigitChars[d]) - 1

IsNegative(s) == Len(s) > 1 /\ SubSeq(s, 1, 1) = "-" /\ IsDigits(SubSeq(s, 2, Len(s)))

\* int(text) raises ValueError unless the text is a decimal number
int_raises(s) == ~(IsDigits(s) \/ IsNegative(s))

int(s) == IF IsNegative(s) THEN 0 - DigitsValue(SubSeq(s, 2, Len(s))) ELSE DigitsValue(s)

\* the Retry-After header of a response: absent, a number of seconds or an
\* HTTP date
NoHeader == [present |-> FALSE, value |-> ""]
Header(v) == [present |-> TRUE, value |-> v]
RetryAfterHeaders ==
    {NoHeader, Header("0"), Header("1"), Header("-1"),
     Header("Wed, 21 Oct 2026 07:28:00 GMT")}

\* what requests.post and the response can do in one pass: a successful
\* response with a JSON body, a successful response whose body is no JSON
\* (response.json() then raises a RequestException or a plain ValueError,
\* depending on the version of requests), status 429, a timeout, another
\* error status, a connection error
Reply(kind, header, json_error) ==
    [kind |-> kind, retry_after |-> header, json_error |-> json_error]
SonarReplies ==
    {Reply(k, NoHeader, "") : k \in {"ok", "timeout", "http_error", "connection_error"}}
    \cup {Reply("status_429", h, "") : h \in RetryAfterHeaders}
    \cup {Reply("ok_not_json", NoHeader, e) : e \in {"RequestException", "ValueError"}}

NewCall == [pc |-> "attempt", attempt |-> 0, replies |-> <<>>, slept |-> <<>>,
            result |-> None, error |-> ""]

Returns(r, value) == [r EXCEPT !.pc = "returned", !.result = value]
Raises(r, error) == [r EXCEPT !.pc = "raised", !.error = error]
SleepsAndGoesOn(r, seconds) ==
    [r EXCEPT !.slept = Append(@, seconds), !.attempt = @ + 1]

\* one pass of the for loop of _make_request, given the reply to its request
make_request_pass(r0, reply) ==
    LET r == [r0 EXCEPT !.replies = Append(@, reply)] IN
    CASE reply.kind = "status_429" ->
            IF ~reply.retry_after.present THEN SleepsAndGoesOn(r, RETRY_DELAY)
            ELSE IF int_raises(reply.retry_after.value) THEN Raises(r, "ValueError")
            ELSE IF int(reply.retry_after.value) < 0 THEN Raises(r, "ValueError")
            ELSE SleepsAndGoesOn(r, int(reply.retry_after.value))
      [] reply.kind = "ok" -> Returns(r, JsonBody)
      [] reply.kind = "ok_not_json" ->
            IF reply.json_error = "RequestException" THEN Returns(r, None)
            ELSE Raises(r, "ValueError")
      [] reply.kind = "timeout" -> SleepsAndGoesOn(r, RETRY_DELAY)
      [] OTHER -> Returns(r, None)

\* a client call is about to be made: nothing else is running
ClientStart(which, call) ==
    /\ tpc = which
    /\ records = <<>>
    /\ clusters = <<>>
    /\ top_n = 0
    /\ top_trends = <<>>
    /\ scored = NotScored
    /\ ran = call
    /\ pc = "idle"
    /\ stats = NewStats
    /\ trends = None
    /\ returned = <<>>
    /\ clock = 0
    /\ run_no = 1
    /\ environ = REQUIRED_KEYS
    /\ NewsRaw = <<>>
    /\ Texts = <<>>
    /\ telegram = <<>>
    /\ log = <<>>
    /\ calls = <<>>

ClientOnly == OverlapOnly /\ UNCHANGED <<Texts, telegram>>

InitSonar == ClientStart("sonar", NewCall)

\* a pass of the loop: for attempt in range(MAX_RETRIES)
MakeRequestPass ==
    /\ tpc = "sonar"
    /\ ran.pc = "attempt"
    /\ ran.attempt < MAX_RETRIES
    /\ \E reply \in SonarReplies : ran' = make_request_pass(ran, reply)
    /\ ClientOnly

\* the loop is over: return None
MakeRequestGivesUp ==
    /\ tpc = "sonar"
    /\ ran.pc = "attempt"
    /\ ran.attempt >= MAX_RETRIES
    /\ ran' = Returns(ran, None)
    /\ ClientOnly

NextSonar == MakeRequestPass \/ MakeRequestGivesUp

SpecSonar == InitSonar /\ [][NextSonar]_vars /\ WF_vars(NextSonar)

-----------------------------------------------------------------------------
(* storage/llm_client.py: OpenRouterClient.generate_with_retry,              *)
(* specification SpecRetry: one call, one pass of the for loop at a time.    *)
(* `ran` holds the arguments max_retries and retry_delay, where the call is, *)
(* what each call of generate met, the sleeps made and what was returned.    *)

StrResult(text) == [kind |-> "str", text |-> text]

\* what a call of generate can meet: a completion with some or with empty
\* content, a timeout, an error status, a body without choices (all three
\* caught), or a completion whose content is null, where len(content) raises
\* a TypeError that generate does not catch
GenerateReplies == {"content", "empty_content", "timeout", "http_error", "no_choices",
                    "null_content"}

generate_raises(reply) == reply = "null_content"

\* generate(): the content, or None after a caught error
generate(reply) ==
    CASE reply = "content" -> StrResult("Post")
      [] reply = "empty_content" -> StrResult("")
      [] OTHER -> None

RetryDelays == {1, RETRY_DELAY}

NewRetryCall(max_retries, retry_delay) ==
    [pc |-> "attempt", attempt |-> 0, replies |-> <<>>, slept |-> <<>>,
     result |-> None, error |-> "",
     max_retries |-> max_retries, retry_delay |-> retry_delay]

\* variant: the wait is made after every failed attempt, the last one too
generate_with_retry_pass_AlwaysWaits(r0, reply) ==
    LET r == [r0 EXCEPT !.replies = Append(@, reply)] IN
    IF generate_raises(reply) THEN Raises(r, "TypeError")
    ELSE IF generate(reply) # None THEN Returns(r, generate(reply))
    ELSE SleepsAndGoesOn(r, r.retry_delay)

\* one pass of the for loop of generate_with_retry, given what generate meets
generate_with_retry_pass(r0, reply) ==
    LET r == [r0 EXCEPT !.replies = Append(@, reply)] IN
    IF generate_raises(reply) THEN Raises(r, "TypeError")
    ELSE IF generate(reply) # None THEN Returns(r, generate(reply))
    ELSE IF r.attempt < r.max_retries - 1 THEN SleepsAndGoesOn(r, r.retry_delay)
    ELSE [r EXCEPT !.attempt = @ + 1]

InitRetry ==
    \E max_retries \in 0..MaxRetriesArg, retry_delay \in RetryDelays :
        ClientStart("retry", NewRetryCall(max_retries, retry_delay))

\* a pass of the loop: for attempt in range(max_retries)
GenerateAttempt ==
    /\ tpc = "retry"
    /\ ran.pc = "attempt"
    /\ ran.attempt < ran.max_retries
    /\ \E reply \in GenerateReplies : ran' = generate_with_retry_pass(ran, reply)
    /\ ClientOnly

\* the loop is over: return None
GenerateGivesUp ==
    /\ tpc = "retry"
    /\ ran.pc = "attempt"
    /\ ran.attempt >= ran.max_retries
    /\ ran' = Returns(ran, None)
    /\ ClientOnly

NextRetry == GenerateAttempt \/ GenerateGivesUp

SpecRetry == InitRetry /\ [][NextRetry]_vars /\ WF_vars(NextRetry)

-----------------------------------------------------------------------------
(* main.py: create_scheduler and schedule mode, specification SpecSchedule.  *)
(* `ran` holds the scheduler: whether it was created and started, its jobs,  *)
(* the local time in its timezone in minutes, the number of add_job calls    *)
(* and the runs of run_pipeline_wrapper it has triggered.  The job store and *)
(* the cron trigger behave as APScheduler documents them with its defaults   *)
(* (one memory job store, coalesce on).                                      *)

SCHEDULER_TIMEZONE == "Europe/Samara"
DAILY_RUN_HOUR == 9
DAILY_RUN_MINUTE == 30

MinutesPerDay == HoursPerDay * 60

\* CronTrigger(hour, minute, timezone): the first fire time at or after `from`
get_next_fire_time(trigger, from) ==
    LET slot == trigger.hour * 60 + trigger.minute
        day == from \div MinutesPerDay
    IN  IF from % MinutesPerDay <= slot
        THEN day * MinutesPerDay + slot
        ELSE (day + 1) * MinutesPerDay + slot

\* the last fire time at or before `now`, for a job that is due
LastFireTime(trigger, now) ==
    get_next_fire_time(trigger, now - MinutesPerDay + 1)

\* the job create_scheduler registers
DailyJob ==
    [id |-> "daily_pipeline", name |-> "Daily AI Content Pipeline",
     func |-> "run_pipeline_wrapper",
     trigger |-> [hour |-> DAILY_RUN_HOUR, minute |-> DAILY_RUN_MINUTE,
                  timezone |-> SCHEDULER_TIMEZONE],
     next_run_time |-> NotSet]

HasJob(jobs, id) == \E i \in 1..Len(jobs) : jobs[i].id = id

\* variant: the job is added next to the one that has its id
add_job_KeepsBoth(jobs, job, replace_existing) == Append(jobs, job)

\* scheduler.add_job(..., id=..., replace_existing=...): a job with an id the
\* store holds takes the place of that job when replace_existing is set (and
\* is refused with ConflictingIdError, the store unchanged, when it is not)
add_job(jobs, job, replace_existing) ==
    IF HasJob(jobs, job.id)
    THEN IF replace_existing
         THEN [i \in 1..Len(jobs) |-> IF jobs[i].id = job.id THEN job ELSE jobs[i]]
         ELSE jobs
    ELSE Append(jobs, job)

NewScheduler ==
    [pc |-> "new", timezone |-> "", jobs |-> <<>>, now |-> 0, added |-> 0,
     fired |-> <<>>]

InitSchedule ==
    \E now \in {0, DAILY_RUN_HOUR * 60, DAILY_RUN_HOUR * 60 + DAILY_RUN_MINUTE} :
        ClientStart("schedule", [NewScheduler EXCEPT !.now = now])

\* a job added to a running scheduler gets its next run time at once
Scheduled(job, r) ==
    IF r.pc = "running"
    THEN [job EXCEPT !.next_run_time = get_next_fire_time(job.trigger, r.now)]
    ELSE job

\* create_scheduler(): a new scheduler with the one job
CreateScheduler ==
    /\ tpc = "schedule"
    /\ ran.pc = "new"
    /\ ran' = [ran EXCEPT !.pc = "created",
                          !.timezone = SCHEDULER_TIMEZONE,
                          !.jobs = add_job(<<>>, DailyJob, TRUE),
                          !.added = 1]
    /\ ClientOnly

\* the add_job call of create_scheduler made once more on the scheduler that
\* holds the job, which is what replace_existing=True is passed for
RegisterAgain ==
    /\ tpc = "schedule"
    /\ ran.pc \in {"created", "running"}
    /\ ran.added < MaxRegistrations
    /\ ran' = [ran EXCEPT !.jobs = add_job(@, Scheduled(DailyJob, ran), TRUE),
                          !.added = @ + 1]
    /\ ClientOnly

\* main(): scheduler.start()
StartScheduler ==
    /\ tpc = "schedule"
    /\ ran.pc = "created"
    /\ LET r == [ran EXCEPT !.pc = "running"] IN
       ran' = [r EXCEPT !.jobs = [i \in 1..Len(r.jobs) |-> Scheduled(r.jobs[i], r)]]
    /\ ClientOnly

\* time passes
TimePasses ==
    /\ tpc = "schedule"
    /\ ran.now < MaxDays * MinutesPerDay
    /\ \E minutes \in {DAILY_RUN_MINUTE, DAILY_RUN_HOUR * 60} :
          ran' = [ran EXCEPT !.now = @ + minutes]
    /\ ClientOnly

\* the runs triggered when the jobs from i on are processed at time `now`:
\* a due job is submitted once for its last fire time, or not at all when the
\* scheduler woke up too late or the previous run is still going
RECURSIVE Triggered(_, _, _, _)
Triggered(jobs, i, now, submitted) ==
    IF i > Len(jobs) THEN <<>>
    ELSE (IF jobs[i].next_run_time <= now /\ submitted[i]
          THEN <<[id |-> jobs[i].id, func |-> jobs[i].func,
                  run_time |-> LastFireTime(jobs[i].trigger, now)]>>
          ELSE <<>>) \o Triggered(jobs, i + 1, now, submitted)

\* the scheduler wakes up and processes its jobs; every due job gets its next
\* run time, the first fire time after the one just handled; the clock has
\* moved on when this is done
ProcessJobs ==
    /\ tpc = "schedule"
    /\ ran.pc = "running"
    /\ \E i \in 1..Len(ran.jobs) : ran.jobs[i].next_run_time <= ran.now
    /\ \E submitted \in [1..Len(ran.jobs) -> BOOLEAN] :
          ran' = [ran EXCEPT
                    !.now = @ + 1,
                    !.fired = @ \o Triggered(ran.jobs, 1, ran.now, submitted),
                    !.jobs = [i \in 1..Len(ran.jobs) |->
                        IF ran.jobs[i].next_run_time <= ran.now
                        THEN [ran.jobs[i] EXCEPT !.next_run_time =
                                get_next_fire_time(ran.jobs[i].trigger,
                                    LastFireTime(ran.jobs[i].trigger, ran.now) + 1)]
                        ELSE ran.jobs[i]]]
    /\ ClientOnly

NextSchedule ==
    CreateScheduler \/ RegisterAgain \/ StartScheduler \/ TimePasses \/ ProcessJobs

SpecSchedule == InitSchedule /\ [][NextSchedule]_vars

-----------------------------------------------------------------------------
(* Properties of the Orchestrator, checked under Spec and SpecLive *)

\* stats["errors"] as _run_agent left it after the i-th stage call
ErrorsAfter(i) == IF i < Len(calls) THEN calls[i + 1].errors_before ELSE stats.errors

CallOf(name) == calls[CHOOSE i \in 1..Len(calls) : calls[i].name = name]

Called(name) == \E i \in 1..Len(calls) : calls[i].name = name

\* C1: a stage operation that raises makes _run_agent return None without
\* propagating, record status 'error' with the error description and append
\* exactly one {agent, error} entry to stats['errors']; one that returns v
\* makes it return v, record status 'success' with result v and a duration,
\* and leave stats['errors'] as it was.
C1_StageIsolation ==
    /\ pc # "raised"
    /\ pc \in Range(STAGES) => pc = STAGES[Len(calls) + 1]
    /\ Called("Trend Selector") /\ CallOf("Trend Selector").raised => trends = None
    /\ \A i \in 1..Len(calls) :
          LET c == calls[i]
              e == AgentEntry(stats, c.name)
          IN  /\ HasAgent(stats, c.name)
              /\ c.raised =>
                    /\ c.returned = None
                    /\ e.status = "error"
                    /\ "error" \in DOMAIN e
                    /\ e.error = c.error
                    /\ e.error # ""
                    /\ ErrorsAfter(i) =
                          Append(c.errors_before, [agent |-> c.name, error |-> c.error])
              /\ ~c.raised =>
                    /\ c.returned = c.result
                    /\ e.status = "success"
                    /\ "result" \in DOMAIN e
                    /\ e.result = c.result
                    /\ "duration_sec" \in DOMAIN e
                    /\ ErrorsAfter(i) = c.errors_before

C1_Witness ==
    /\ pc = "Cover Generator"
    /\ CallOf("Trend Selector").raised
    /\ trends = None
    /\ ~CallOf("Bob Copywriter").raised
    /\ CallOf("Bob Copywriter").result.n = 1
    /\ Len(stats.errors) = 1

\* C2: provided every stage operation terminates, run_pipeline reaches its
\* end whatever the stages do: started_at and finished_at are set, the
\* summary is produced and the stats are returned; it never raises.
C2_RunCompletes ==
    <>(/\ pc = "completed"
       /\ returned = <<stats>>
       /\ stats.started_at # NotSet
       /\ stats.finished_at # NotSet
       /\ log[Len(log)].ev = "summary")

C2_Witness ==
    /\ pc = "completed"
    /\ returned = <<stats>>
    /\ Len(stats.errors) = 6

ExpectedLog ==
    <<[ev |-> "started_at", name |-> ""]>>
    \o [i \in 1..(2 * Len(STAGES)) |->
          [ev |-> IF i % 2 = 1 THEN "start" ELSE "end", name |-> STAGES[(i + 1) \div 2]]]
    \o <<[ev |-> "finished_at", name |-> ""], [ev |-> "summary", name |-> ""]>>

\* C3: whichever stages fail, a run invokes the stage runner exactly six
\* times, one stage after the other in the order RSS Collector, Sonar Scanner,
\* Trend Selector, Bob Copywriter, Cover Generator, Publisher; started_at is
\* set before the first stage, finished_at after the last, and the summary is
\* produced once, after finished_at.
C3_SixStagesInOrder ==
    /\ Len(log) <= Len(ExpectedLog)
    /\ log = SubSeq(ExpectedLog, 1, Len(log))
    /\ Len(calls) <= Len(STAGES)
    /\ \A i \in 1..Len(calls) : calls[i].name = STAGES[i]
    /\ \A i \in 1..Len(stats.agents) :
          /\ stats.agents[i].name = STAGES[i]
          /\ stats.started_at # NotSet
          /\ stats.started_at <= stats.agents[i].entry.started_at
          /\ i > 1 => stats.agents[i - 1].entry.finished_at
                        <= stats.agents[i].entry.started_at
    /\ pc \in {"summary", "return", "completed"} =>
          /\ Len(calls) = 6
          /\ Len(stats.agents) = 6
          /\ stats.finished_at >= stats.agents[6].entry.finished_at
    /\ pc \in {"return", "completed"} => log = ExpectedLog

C3_Witness ==
    /\ pc = "completed"
    /\ log = ExpectedLog
    /\ CallOf("Trend Selector").raised
    /\ CallOf("RSS Collector").raised
    /\ ~CallOf("Publisher").raised

\* C4: in every recorded stage outcome the status is 'error' exactly when the
\* stage operation raised, an error description is present exactly when the
\* status is 'error', a result exactly when it is 'success', and started_at,
\* finished_at and duration_sec are present either way.
C4_OutcomeWellFormed ==
    \A i \in 1..Len(stats.agents) :
        LET e == stats.agents[i].entry IN
        /\ Called(stats.agents[i].name)
        /\ e.status \in {"success", "error"}
        /\ e.status = "error" <=> CallOf(stats.agents[i].name).raised
        /\ "error" \in DOMAIN e <=> e.status = "error"
        /\ "result" \in DOMAIN e <=> e.status = "success"
        /\ {"started_at", "finished_at", "duration_sec"} \subseteq DOMAIN e

C4_Witness ==
    /\ Len(stats.agents) = 6
    /\ \E i \in 1..6 : stats.agents[i].entry.status = "error"
    /\ \E i \in 1..6 : stats.agents[i].entry.status = "success"

NoTrendsGiven(c) == c.arg.kind = "none" \/ (c.arg.kind = "list" /\ c.arg.list = <<>>)

\* C5 as stated: given None or an empty trend list the Bob Copywriter stage
\* still runs, saves no post and returns 0, is not recorded as failed and does
\* not run the trend selection again (a stage whose own clients cannot be
\* built is left aside).
C5_CopywriterDegrades ==
    \A i \in 1..Len(calls) :
        LET c == calls[i] IN
        (c.name = "Bob Copywriter" /\ NoTrendsGiven(c) /\ ~(c.raised /\ ~c.reran)) =>
            /\ ~c.raised
            /\ ~c.reran
            /\ c.result = IntResult(0)
            /\ (IF i < Len(calls) THEN calls[i + 1].texts_before ELSE Texts)
                  = c.texts_before

AllCallsFine == \A i \in 1..Len(calls) : ~calls[i].raised /\ calls[i].ok

\* the whole run saw no item dated today and no external failure
EmptyDayRun ==
    /\ pc = "completed"
    /\ AllCallsFine
    /\ get_today_records(CallOf("Trend Selector").news_before) = <<>>

WaitingForCover(texts) ==
    {i \in 1..Len(texts) :
        /\ texts[i].status \in {"draft", "approved"}
        /\ texts[i].cover_image_url = ""
        /\ texts[i].trend # ""
        /\ texts[i].post_text # ""}

WaitingForPublication(texts) ==
    {i \in 1..Len(texts) :
        /\ texts[i].approved \in {"Y", "y"}
        /\ texts[i].posted \in {"N", "n"}
        /\ texts[i].post_text # ""}

\* C6 as stated: with no news item for today and every external call
\* succeeding, the run reports zero trends, zero posts, zero covers and zero
\* published messages and no failed stage, whatever the Texts sheet holds.
C6_EmptyDayAllZero ==
    EmptyDayRun =>
        /\ CallOf("Trend Selector").result = ListResult(<<>>)
        /\ CallOf("Bob Copywriter").result = IntResult(0)
        /\ CallOf("Cover Generator").result = IntResult(0)
        /\ CallOf("Publisher").result.published = 0
        /\ stats.errors = <<>>

\* C6 amended: with no news item for today and every external call
\* succeeding, the run reports zero trends and zero generated posts and no
\* failed stage; the covers it reports are the rows of Texts that waited for
\* a cover (draft or approved, no cover, with trend and text) and the
\* published messages the approved, unposted rows with a text, so both are
\* zero only when Texts holds no such row of an earlier day.
C6_EmptyDayBacklogOnly ==
    EmptyDayRun =>
        /\ CallOf("Trend Selector").result = ListResult(<<>>)
        /\ CallOf("Bob Copywriter").result = IntResult(0)
        /\ CallOf("Cover Generator").texts_before = CallOf("Bob Copywriter").texts_before
        /\ CallOf("Cover Generator").result =
              IntResult(Cardinality(WaitingForCover(CallOf("Cover Generator").texts_before)))
        /\ CallOf("Publisher").result.published =
              Cardinality(WaitingForPublication(CallOf("Publisher").texts_before))
        /\ Len(telegram) = CallOf("Publisher").result.published
        /\ stats.errors = <<>>
        /\ \A i \in 1..Len(stats.agents) : stats.agents[i].entry.status = "success"

C6_Witness ==
    /\ EmptyDayRun
    /\ CallOf("Cover Generator").result.n + CallOf("Publisher").result.published >= 1
    /\ CallOf("Bob Copywriter").result = IntResult(0)

-----------------------------------------------------------------------------
(* Properties of the Trend Selection Engine, checked under SpecTrend *)

IsPriority(news) == news.brand \in Range(HIGH_PRIORITY_BRANDS)

HoursOld(news) == EvalHour - news.published_at.hour

IsDated(news) == news.published_at.fmt = "ymd_hms"

\* the recency term the specification gives for one item, in 1/48ths
ExpectedRecency(news) ==
    IF IsDated(news)
    THEN (IF HoursOld(news) >= 24 THEN 0 ELSE 24 - HoursOld(news))
    ELSE 12

RECURSIVE SumRecency(_, _)
SumRecency(cluster, I) ==
    IF I = {} THEN 0
    ELSE LET i == CHOOSE j \in I : TRUE IN
         ExpectedRecency(cluster[i]) + SumRecency(cluster, I \ {i})

ExpectedScore(cluster) ==
    48 * Len(cluster)
    + 96 * Cardinality({i \in 1..Len(cluster) : IsPriority(cluster[i])})
    + SumRecency(cluster, 1..Len(cluster))

\* the sequences that hold every element of S once
RECURSIVE Arrangements(_)
Arrangements(S) ==
    IF S = {} THEN {<<>>}
    ELSE UNION {{<<x>> \o p : p \in Arrangements(S \ {x})} : x \in S}

Orderings(n) == Arrangements(1..n)

AllTopics == {TOPIC_KEYWORDS[i].topic : i \in 1..Len(TOPIC_KEYWORDS)} \cup {DEFAULT_TOPIC}

TitlesOf(ts) == [i \in 1..Len(ts) |-> ts[i].title]

TopicOf(news) == _classify_topic(RecordText(news))

ItemsOfTopic(recs, topic) == {i \in 1..Len(recs) : TopicOf(recs[i]) = topic}

\* The input of the end-to-end scenario: four items, two of them "AI Models"
\* (one from a priority brand, one hour old), one "AI Regulation" twenty
\* hours old, one of the default topic two hours old.
IsScenario(recs) ==
    /\ Len(recs) = 4
    /\ Cardinality(ItemsOfTopic(recs, "AI Models")) = 2
    /\ Cardinality({i \in ItemsOfTopic(recs, "AI Models") : IsPriority(recs[i])}) = 1
    /\ \A i \in ItemsOfTopic(recs, "AI Models") :
          IsPriority(recs[i]) => IsDated(recs[i]) /\ HoursOld(recs[i]) = 1
    /\ Cardinality(ItemsOfTopic(recs, "AI Regulation")) = 1
    /\ \A i \in ItemsOfTopic(recs, "AI Regulation") :
          IsDated(recs[i]) /\ HoursOld(recs[i]) = 20
    /\ Cardinality(ItemsOfTopic(recs, DEFAULT_TOPIC)) = 1
    /\ \A i \in ItemsOfTopic(recs, DEFAULT_TOPIC) :
          IsDated(recs[i]) /\ HoursOld(recs[i]) = 2

ScenarioRanked == tpc = "ranked" /\ top_n = 2 /\ IsScenario(records)

RegulationUnbranded(recs) ==
    \A i \in ItemsOfTopic(recs, "AI Regulation") : ~IsPriority(recs[i])

\* C7 as stated: in the end-to-end scenario, cluster_news followed by
\* select_top_trends with top_n = 2 returns "AI Models" first and
\* "AI Regulation" second, leaving the default-topic cluster out.
C7_ScenarioOmitsDefaultTopic ==
    ScenarioRanked => TitlesOf(top_trends) = <<"AI Models", "AI Regulation">>

\* C7 amended: in the end-to-end scenario, with the "AI Regulation" item not
\* from a priority brand, exactly two trends are returned, "AI Models" first
\* and the default topic "AI General" second (1 + 22/48 against 1 + 4/48);
\* the cluster left out is "AI Regulation".
C7_ScenarioRanksByScore ==
    (ScenarioRanked /\ RegulationUnbranded(records))
        => TitlesOf(top_trends) = <<"AI Models", DEFAULT_TOPIC>>

C7_Witness ==
    /\ ScenarioRanked
    /\ RegulationUnbranded(records)
    /\ Len(top_trends) = 2
    /\ top_trends[2].score = 70

ScoreOfTopic(topic) ==
    LET k == CHOOSE i \in 1..Len(clusters) : clusters[i].topic = topic IN
    _calculate_score(clusters[k].news, topic, EvalHour)

LeftOutTopics == {clusters[i].topic : i \in 1..Len(clusters)} \ Range(TitlesOf(top_trends))

\* C8: for every cluster map and every top_n >= 0, select_top_trends returns
\* exactly min(top_n, number of clusters) trends, in order of non-increasing
\* score, and no cluster left out scores higher than a returned trend.
C8_RankingBounded ==
    (tpc = "ranked" /\ top_n >= 0) =>
        /\ Len(top_trends) = Min(top_n, Len(clusters))
        /\ \A i, j \in 1..Len(top_trends) :
              i < j => top_trends[i].score >= top_trends[j].score
        /\ \A i \in 1..Len(top_trends) : \A topic \in LeftOutTopics :
              top_trends[i].score >= ScoreOfTopic(topic)

C8_Witness ==
    /\ tpc = "ranked"
    /\ top_n = 2
    /\ Len(clusters) = 4
    /\ Len(top_trends) = 2
    /\ top_trends[1].score > top_trends[2].score
    /\ top_trends[1].title # clusters[1].topic

\* C9: for a fixed evaluation instant the score of a cluster is its item
\* count, plus 2 for every item of a high-priority brand, plus for every item
\* max(0, 1 - hours/24) * 0.5, or 0.25 when published_at is missing or not
\* parseable; it depends neither on the topic label nor on the item order.
C9_ScoreFormula ==
    /\ tpc = "ranked" =>
          \A i \in 1..Len(top_trends) :
              top_trends[i].score = ExpectedScore(top_trends[i].news)
    /\ scored.set =>
          /\ scored.before = ExpectedScore(scored.cluster)
          /\ scored.after = ExpectedScore(Append(scored.cluster, scored.item))
          /\ \A topic \in AllTopics :
                _calculate_score(scored.cluster, topic, EvalHour) = scored.before
          /\ \A p \in Orderings(Len(scored.cluster)) :
                _calculate_score([i \in 1..Len(scored.cluster) |-> scored.cluster[p[i]]],
                                 scored.topic, EvalHour) = scored.before

C9_Witness ==
    /\ scored.set
    /\ Len(scored.cluster) = 2
    /\ \E i \in 1..2 : IsPriority(scored.cluster[i])
    /\ \E i \in 1..2 : ~IsDated(scored.cluster[i])
    /\ scored.item.brand = "openai"
    /\ ~IsDated(scored.item)
    /\ scored.after = scored.before + 60

\* C10: one more item of a high-priority brand raises the score by exactly
\* 3.0 plus that item's own recency term, and one more item of any kind never
\* lowers it.
C10_ScoreMonotone ==
    scored.set =>
        /\ scored.after >= scored.before
        /\ IsPriority(scored.item) =>
              /\ scored.after = scored.before + 3 * 48 + ExpectedRecency(scored.item)
              /\ scored.after > scored.before

C10_Witness ==
    /\ scored.set
    /\ IsPriority(scored.item)
    /\ \E i \in 1..Len(scored.cluster) : scored.cluster[i].brand = scored.item.brand
    /\ scored.after = scored.before + 3 * 48 + 23

\* the recency component _calculate_score gave to a cluster, in 1/48ths
RecencyComponent(cluster, score) ==
    score - 48 * Len(cluster)
          - 96 * Cardinality({i \in 1..Len(cluster) : IsPriority(cluster[i])})

\* C11 as stated: whatever published_at an item carries (past, future,
\* missing or malformed) its recency contribution lies between 0 and the 0.5
\* cap, so a cluster's score is never negative and its recency component
\* never exceeds 0.5 times the item count.
C11_RecencyWithinCap ==
    scored.set =>
        /\ scored.before >= 0
        /\ scored.after >= 0
        /\ RecencyComponent(scored.cluster, scored.before) \in 0..(24 * Len(scored.cluster))
        /\ (scored.after - scored.before) - 48
              - (IF IsPriority(scored.item) THEN 96 ELSE 0) \in 0..24

\* the taxonomy in its iteration order
LabelOrder ==
    <<"AI Models", "AI Agents", "AI Regulation", "AI Business",
      "AI Research", "AI Hardware", "AI Open Source", "AI Ethics">>

\* the keywords of the l-th label, letters folded to one case
FoldedKeywords ==
    [l \in 1..Len(LabelOrder) |->
        LET kws == TOPIC_KEYWORDS[CHOOSE i \in 1..Len(TOPIC_KEYWORDS) :
                                     TOPIC_KEYWORDS[i].topic = LabelOrder[l]].keywords
        IN  {[j \in 1..Len(kws[k]) |-> LowerChar(kws[k][j])] : k \in 1..Len(kws)}]

\* the pieces of a text, letters folded to one case
FoldedPieces(text) ==
    LET folded == [j \in 1..Len(text) |-> LowerChar(text[j])] IN
    {SubSeq(folded, a, b) : a \in 1..Len(text), b \in 1..Len(text)}

\* C12: _classify_topic returns, for every text, the first label in the
\* taxonomy's order (AI Models, AI Agents, AI Regulation, AI Business, AI
\* Research, AI Hardware, AI Open Source, AI Ethics) one of whose keywords
\* occurs in the text as a case-insensitive substring; it returns "AI
\* General" exactly when no keyword of any label occurs, and a second call on
\* the same text gives the same label.
C12_ClassifyFirstLabel ==
    /\ [i \in 1..Len(TOPIC_KEYWORDS) |-> TOPIC_KEYWORDS[i].topic] = LabelOrder
    /\ tpc = "clustered" =>
          \A k \in 1..Len(clusters) : \A i \in 1..Len(clusters[k].news) :
              \E text \in {RecordText(clusters[k].news[i])} :
              \E pieces \in {FoldedPieces(text)} :
              \E matching \in {{l \in 1..Len(LabelOrder) : FoldedKeywords[l] \cap pieces # {}}} :
                  /\ _classify_topic(text) = clusters[k].topic
                  /\ clusters[k].topic = "AI General" <=> matching = {}
                  /\ matching # {} =>
                        \E first \in matching :
                            /\ \A l \in matching : first <= l
                            /\ clusters[k].topic = LabelOrder[first]

C12_Witness ==
    /\ tpc = "clustered"
    /\ \E k \in 1..Len(clusters) :
          /\ clusters[k].topic = "AI Regulation"
          /\ \E i \in 1..Len(clusters[k].news) :
                FoldedKeywords[6] \cap FoldedPieces(RecordText(clusters[k].news[i])) # {}
    /\ \E k \in 1..Len(clusters) : clusters[k].topic = "AI General"
    /\ \E k \in 1..Len(clusters) :
          /\ clusters[k].topic = "AI Models"
          /\ \E i \in 1..Len(clusters[k].news) : clusters[k].news[i].title = T_GPT5

\* the places (bucket, position) of the cluster map
Places == UNION {{<<k, i>> : i \in 1..Len(clusters[k].news)} : k \in 1..Len(clusters)}

\* C13: cluster_news puts every record of its input into exactly one bucket,
\* the bucket of the label _classify_topic gives to its title plus summary:
\* the bucket sizes sum to the input length and every record occurs in the
\* buckets as often as in the input.
C13_ClusteringComplete ==
    tpc = "clustered" =>
        /\ Cardinality(Places) = Len(records)
        /\ \A k, l \in 1..Len(clusters) : clusters[k].topic = clusters[l].topic => k = l
        /\ \A p \in Places :
              clusters[p[1]].topic = _classify_topic(RecordText(clusters[p[1]].news[p[2]]))
        /\ \A r \in Range(records) :
              Cardinality({p \in Places : clusters[p[1]].news[p[2]] = r})
                 = Cardinality({i \in 1..Len(records) : records[i] = r})

C13_Witness ==
    /\ tpc = "clustered"
    /\ Len(records) = 4
    /\ records[1] = records[3]
    /\ Len(clusters) = 2
    /\ Cardinality(Places) = 4

\* the place in the input of cluster_news where a topic is seen first
FirstSeen(topic) ==
    CHOOSE i \in ItemsOfTopic(records, topic) :
        \A j \in ItemsOfTopic(records, topic) : i <= j

\* C14: of two clusters with equal scores select_top_trends places first the
\* one whose topic was seen first in the input of cluster_news, also when
\* only one of the two is returned; the same input list gives the same
\* ranked order of titles again.
C14_TiesByFirstSeen ==
    tpc = "ranked" =>
        /\ \A i, j \in 1..Len(top_trends) :
              (i < j /\ top_trends[i].score = top_trends[j].score)
                  => FirstSeen(top_trends[i].title) < FirstSeen(top_trends[j].title)
        /\ \A i \in 1..Len(top_trends) : \A t \in LeftOutTopics :
              ScoreOfTopic(t) = top_trends[i].score
                  => FirstSeen(top_trends[i].title) < FirstSeen(t)
        /\ TitlesOf(select_top_trends(cluster_news(records), top_n, EvalHour))
              = TitlesOf(top_trends)

C14_Witness ==
    /\ tpc = "ranked"
    /\ Len(top_trends) >= 2
    /\ top_trends[1].score = top_trends[2].score
    /\ top_trends[1].count = 1
    /\ top_trends[2].count = 2

\* C15: cluster_news keeps the input order inside every bucket, gives an
\* empty map for an empty input, never gives an empty bucket, and gives at
\* most 9 buckets, each under a configured label or "AI General".
C15_BucketsOrdered ==
    tpc = "clustered" =>
        /\ records = <<>> => clusters = <<>>
        /\ Len(clusters) <= 9
        /\ \A k \in 1..Len(clusters) :
              \E from \in {ItemsOfTopic(records, clusters[k].topic)} :
                  /\ clusters[k].topic \in Range(LabelOrder) \cup {"AI General"}
                  /\ clusters[k].news # <<>>
                  /\ Len(clusters[k].news) = Cardinality(from)
                  /\ \A i \in from :
                        clusters[k].news[Cardinality({j \in from : j <= i})] = records[i]

C15_Witness ==
    /\ tpc = "clustered"
    /\ Len(records) = 4
    /\ \E k \in 1..Len(clusters) :
          /\ Len(clusters[k].news) = 2
          /\ clusters[k].news[1].title = T_NEWLLM
          /\ clusters[k].news[2].title = T_GPT5
    /\ Len(clusters) = 3

\* `part in text` for two str
Names(text, part) ==
    \E i \in 1..(Len(text) - Len(part) + 1) : SubSeq(text, i, i + Len(part) - 1) = part

StartsWith(text, part) ==
    Len(part) <= Len(text) /\ SubSeq(text, 1, Len(part)) = part

EndsWith(text, part) ==
    Len(part) <= Len(text) /\ SubSeq(text, Len(text) - Len(part) + 1, Len(text)) = part

ClusterOf(topic) == clusters[CHOOSE k \in 1..Len(clusters) : clusters[k].topic = topic].news

\* title, count and news of a returned trend are those of its cluster
TrendCarriesCluster(t) ==
    /\ \E k \in 1..Len(clusters) : clusters[k].topic = t.title
    /\ t.count = Len(ClusterOf(t.title))
    /\ t.news = ClusterOf(t.title)
    /\ \A i \in 1..Len(t.news) : TopicOf(t.news[i]) = t.title
    /\ t.description # {}

\* the description names topic, count, brands or placeholder, and the first
\* two titles and no other
NamesEverything(d, t) ==
    /\ StartsWith(d, t.title \o ": " \o ToString(t.count) \o " novostei ot ")
    /\ \A i \in 1..Len(t.news) : t.news[i].brand # "" => Names(d, t.news[i].brand)
    /\ (\A i \in 1..Len(t.news) : t.news[i].brand = "") => Names(d, "Various companies")
    /\ EndsWith(d, ". Kluchevy sobytia: "
                   \o Str(t.news[1].title)
                   \o (IF Len(t.news) >= 2 THEN "; " \o Str(t.news[2].title) ELSE ""))

\* C16 as stated: every returned trend has the title, count and items of its
\* cluster and a description of at most 300 characters that names the topic,
\* the item count, the distinct non-empty brands (or "Various companies")
\* and at most the first two item titles.
C16_DescriptionNamesAll ==
    tpc = "ranked" =>
        \A i \in 1..Len(top_trends) :
            /\ TrendCarriesCluster(top_trends[i])
            /\ \A d \in top_trends[i].description :
                  /\ Len(d) <= 300
                  /\ NamesEverything(d, top_trends[i])

\* C16 amended: every returned trend has the title, count and items of its
\* cluster; its description is at most 300 characters long and starts with
\* the topic and the item count; it names the brands (or "Various
\* companies") and the first two titles when it is shorter than 300
\* characters, and is otherwise cut at the 300th character, whatever the cut
\* removes.
C16_DescriptionCut ==
    tpc = "ranked" =>
        \A i \in 1..Len(top_trends) :
            /\ TrendCarriesCluster(top_trends[i])
            /\ \A d \in top_trends[i].description :
                  /\ Len(d) <= 300
                  /\ StartsWith(d, top_trends[i].title \o ": "
                                   \o ToString(top_trends[i].count) \o " novostei ot ")
                  /\ Len(d) < 300 => NamesEverything(d, top_trends[i])

C16_Witness ==
    /\ tpc = "ranked"
    /\ \E i \in 1..Len(top_trends) :
          /\ \E d \in top_trends[i].description : Len(d) = 300
          /\ \A d \in top_trends[i].description : ~Names(d, ". Kluchevy sobytia: ")
    /\ \E i \in 1..Len(top_trends) :
          /\ Cardinality(top_trends[i].description) = 2
          /\ top_trends[i].count = 2
    /\ \E i \in 1..Len(top_trends) :
          \E d \in top_trends[i].description : Names(d, "Various companies")

-----------------------------------------------------------------------------
(* TrendSelector.run *)

TopicsGiven == {_classify_topic(RecordText(ran.today[i])) : i \in 1..Len(ran.today)}

\* C17: run() returns at most 5 trends whatever the rows of today are; with no
\* row of today it returns the empty list and has neither clustered, nor
\* ranked, nor written trends.md; and trends.md is written exactly when run()
\* returns at least one trend.
C17_RunCapsAndWrites ==
    tpc = "ran" =>
        /\ ~ran.raised => Len(ran.result) <= 5
        /\ ran.today = <<>> =>
              /\ ~ran.raised /\ ran.result = <<>>
              /\ ~ran.clustered /\ ~ran.ranked /\ ~ran.file.written
        /\ ran.file.written <=> (~ran.raised /\ ran.result # <<>>)
        /\ ran.file.written => ran.file.trends = ran.result

\* rows of six topics were given, five trends came back and went to trends.md
C17_Witness ==
    /\ tpc = "ran"
    /\ Cardinality(TopicsGiven) >= 6
    /\ Len(ran.result) = 5
    /\ ran.file.written

\* no row of today: run() returned the empty list
C17_WitnessEmpty ==
    /\ tpc = "ran"
    /\ ran.set
    /\ ran.today = <<>>
-----------------------------------------------------------------------------
(* The report of a run *)

IsRaised(c) == c.raised

\* the failure summaries of the stages that raised in this call of run_pipeline
FailureSummaries ==
    LET failed == SelectSeq(calls, IsRaised)
    IN  [i \in 1..Len(failed) |-> [agent |-> failed[i].name, error |-> failed[i].error]]

\* C18: the report a call of run_pipeline returns holds the outcomes of the
\* stages of that call and the failure summaries of that call only, also when
\* it is the second call on the same Orchestrator after a run with failures.
C18_ReportOfThisRunOnly ==
    pc = "completed" =>
        /\ returned[1].errors = FailureSummaries
        /\ \A i \in 1..Len(calls) :
              /\ HasAgent(returned[1], calls[i].name)
              /\ AgentEntry(returned[1], calls[i].name).status =
                    (IF calls[i].raised THEN "error" ELSE "success")
              /\ AgentEntry(returned[1], calls[i].name).started_at >= returned[1].started_at
-----------------------------------------------------------------------------
(* Missing configuration *)

ConfigErrors == {get_env_error(key) : key \in REQUIRED_KEYS}

\* C19: a required key without a value stops the program when the Orchestrator
\* is built: no stage is run, and no stage failure in the report comes from
\* the missing key.
C19_MissingConfigStopsStartup ==
    environ # REQUIRED_KEYS =>
        /\ calls = <<>>
        /\ \A i \in 1..Len(stats.errors) : stats.errors[i].error \notin ConfigErrors
-----------------------------------------------------------------------------
(* What the Publisher sends *)

\* the messages the Publisher stage delivered
SentByPublisher ==
    SubSeq(telegram, Len(CallOf("Publisher").tg_before) + 1, Len(telegram))

\* approved is Y, posted is N, in either letter case, and there is a text
MayBeSent(row) ==
    /\ row.approved \in {"Y", "y"}
    /\ row.posted \in {"N", "n"}
    /\ row.post_text # ""

IsPostOf(message, row) ==
    /\ message.text = row.post_text
    /\ message.trend = row.trend
    /\ message.photo = row.cover_image_url

\* C20: the Publisher sends a post only if, in the Texts rows it read when its
\* run started, approved is Y and posted is N (in either letter case) and the
\* text is not empty; no other row is sent, and no other stage sends anything.
C20_OnlyApprovedUnposted ==
    IF ~Called("Publisher") THEN telegram = <<>>
    ELSE LET before == CallOf("Publisher").texts_before IN
         /\ CallOf("Publisher").tg_before = <<>>
         /\ \A k \in 1..Len(SentByPublisher) :
               \E i \in 1..Len(before) :
                  /\ MayBeSent(before[i])
                  /\ IsPostOf(SentByPublisher[k], before[i])
         /\ \A i \in 1..Len(before) :
               ~MayBeSent(before[i]) =>
                  \A k \in 1..Len(SentByPublisher) : ~IsPostOf(SentByPublisher[k], before[i])

\* the Publisher read a row approved as "y" with posted "n" next to a row that
\* is not approved, and sent exactly the first
C20_Witness ==
    /\ Called("Publisher")
    /\ Len(SentByPublisher) = 1
    /\ LET before == CallOf("Publisher").texts_before IN
        /\ \E i \in 1..Len(before) :
              /\ before[i].approved = "y" /\ before[i].posted = "n"
              /\ IsPostOf(SentByPublisher[1], before[i])
        /\ \E i \in 1..Len(before) : ~MayBeSent(before[i])
-----------------------------------------------------------------------------
(* Properties of the stages, checked under SpecStages *)

\* the last run was a run of the stage `name`
LastRan(name) == tpc = "stages" /\ clock > 0 /\ ran.name = name

\* the messages a run delivered
Delivered(t) == SubSeq(t.tg_after, Len(t.tg_before) + 1, Len(t.tg_after))

\* what sending the i-th selected post came to
WasSent(t, i) == t.posts[i].post_text # "" /\ t.fate[i] # "send_failed"

\* C21: Publisher.run returns published + failed = total = the number of rows
\* it selected; update_post_status is called once for every post that was
\* sent, in order, and for no other; when the connection test fails or no
\* row is selected the three counts are 0 and nothing is sent.
C21_PublisherCounts ==
    LastRan("Publisher") =>
            LET t == ran
                selected == {i \in 1..Len(t.texts_before) :
                                /\ t.texts_before[i].approved \in {"Y", "y"}
                                /\ t.texts_before[i].posted \in {"N", "n"}}
                sent == {i \in 1..Len(t.posts) : WasSent(t, i)}
            IN  /\ t.result.kind = "dict"
                /\ t.result.published + t.result.failed = t.result.total
                /\ t.result.total = Len(t.posts)
                /\ t.result.published = Cardinality(sent)
                /\ Len(Delivered(t)) = Cardinality(sent)
                /\ (t.connected /\ t.posts # <<>>) => Len(t.posts) = Cardinality(selected)
                /\ Len(t.updates) = Cardinality(sent)
                /\ \A i \in 1..Len(t.posts) :
                      Cardinality({k \in 1..Len(t.updates) : t.updates[k].post = i})
                          = (IF i \in sent THEN 1 ELSE 0)
                /\ (~t.connected \/ selected = {}) =>
                      /\ t.result = DictResult(0, 0, 0)
                      /\ Delivered(t) = <<>>
                      /\ t.updates = <<>>

\* a run selected two rows, sent one and failed on the other
C21_Witness ==
    /\ LastRan("Publisher")
    /\ ran.result = DictResult(1, 1, 2)
    /\ Len(ran.updates) = 1

\* a run whose connection test failed while a row was waiting
C21_WitnessNoConnection ==
    /\ LastRan("Publisher")
    /\ ~ran.connected
    /\ get_posts_for_publish(ran.texts_before) # <<>>
\* the places, in order, of the handled trends whose generation returned text
RECURSIVE WithText(_, _)
WithText(kinds, i) ==
    IF i > Len(kinds) THEN <<>>
    ELSE (IF kinds[i] = "text" THEN <<i>> ELSE <<>>) \o WithText(kinds, i + 1)

\* C22: generate_posts handles the first 4 trends in ranked order, asks the LLM
\* once for each of them, and makes one post, in the same order, for each
\* trend whose generation returned text; run returns the number of rows
\* appended to Texts, at most min(4, number of trends), and every appended
\* row is a draft with approved N and posted N.
C22_CopywriterPosts ==
    LastRan("Bob Copywriter") =>
            LET t == ran
                handled == Min(4, Len(t.trends))
                with_text == WithText(t.kinds, 1)
                added == SubSeq(t.texts_after, Len(t.texts_before) + 1, Len(t.texts_after))
            IN  /\ Len(t.llm_calls) = handled
                /\ \A i \in 1..handled : t.llm_calls[i] = t.trends[i].title
                /\ Len(t.posts) = Len(with_text)
                /\ \A j \in 1..Len(t.posts) :
                      /\ t.posts[j].trend = t.trends[with_text[j]].title
                      /\ t.posts[j].post_text # ""
                /\ t.result.kind = "int"
                /\ t.result.n = Len(added)
                /\ t.result.n = Cardinality({j \in 1..Len(t.posts) : t.appended[j]})
                /\ t.result.n <= handled
                /\ SubSeq(t.texts_after, 1, Len(t.texts_before)) = t.texts_before
                /\ \A k \in 1..Len(added) :
                      /\ added[k].status = "draft"
                      /\ added[k].approved = "N"
                      /\ added[k].posted = "N"
                      /\ \E j \in 1..Len(t.posts) :
                            /\ t.appended[j]
                            /\ added[k].trend = t.posts[j].trend
                            /\ added[k].post_text = t.posts[j].post_text

\* five trends were given: four were handled, one generation returned no
\* text, one append failed, and 2 was returned
C22_Witness ==
    /\ LastRan("Bob Copywriter")
    /\ Len(ran.trends) = 5
    /\ Len(ran.llm_calls) = 4
    /\ Len(ran.posts) = 3
    /\ ran.result = IntResult(2)
\* the places of the rows that wait for a cover, in sheet order
RECURSIVE WaitingRows(_, _)
WaitingRows(rows, i) ==
    IF i > Len(rows) THEN <<>>
    ELSE (IF rows[i].status \in {"draft", "approved"} /\ rows[i].cover_image_url = ""
          THEN <<i>> ELSE <<>>) \o WaitingRows(rows, i + 1)

\* a cover was generated for the j-th selected post
CoverMade(t, j) ==
    /\ t.posts[j].trend # ""
    /\ t.posts[j].post_text # ""
    /\ t.fate[j] # "no_image"

\* C28: the Cover Generator selects exactly the rows with status draft or
\* approved and no cover; a cover generated for a post is written to that
\* post's own row, so that the row no longer waits for a cover when a later
\* run reads the sheet; and the count returned is the number of rows whose
\* cover_image_url was set.
C28_CoverOwnRow ==
    LastRan("Cover Generator") =>
            LET t == ran
                waiting == WaitingRows(t.texts_before, 1)
            IN  t.readok =>
                  /\ Len(t.posts) = Len(waiting)
                  /\ \A j \in 1..Len(t.posts) :
                        /\ t.posts[j] = t.texts_before[waiting[j]]
                        /\ CoverMade(t, j) =>
                              /\ t.texts_after[waiting[j]].cover_image_url # ""
                              /\ \A k \in 1..Len(WaitingRows(Texts, 1)) :
                                    WaitingRows(Texts, 1)[k] # waiting[j]
                  /\ t.result.n =
                        Cardinality({i \in 1..Len(t.texts_before) :
                            t.texts_after[i].cover_image_url
                                # t.texts_before[i].cover_image_url})
SamePost(a, b) == a.trend = b.trend /\ a.post_text = b.post_text

SentCount(row) ==
    Cardinality({k \in 1..Len(telegram) :
        telegram[k].trend = row.trend /\ telegram[k].text = row.post_text})

\* the places of the rows of the sheet a Publisher run selects, in sheet order
RECURSIVE ReadyRows(_, _)
ReadyRows(rows, i) ==
    IF i > Len(rows) THEN <<>>
    ELSE (IF rows[i].approved \in {"Y", "y"} /\ rows[i].posted \in {"N", "n"}
          THEN <<i>> ELSE <<>>) \o ReadyRows(rows, i + 1)

\* C26: over a sequence of Publisher runs with no other edit of the sheet, no
\* post is sent more than once: the channel never holds more messages of a
\* post than the sheet has rows of it, and a run that sent a post has marked
\* that post's own row posted = Y, also when rows share a trend title.
C26_SentAtMostOnce ==
    tpc = "stages" =>
        /\ \A i \in 1..Len(Texts) :
              SentCount(Texts[i]) <=
                  Cardinality({m \in 1..Len(Texts) : SamePost(Texts[m], Texts[i])})
        /\ LastRan("Publisher") =>
              \A j \in 1..Len(ran.posts) :
                  WasSent(ran, j) =>
                      ran.texts_after[ReadyRows(ran.texts_before, 1)[j]].posted = "Y"
IsApproved(row) == row.approved \in {"Y", "y"}

\* no stage touches an approved cell, and a row a stage adds is not approved
ApprovalUntouched ==
    /\ Len(Texts') >= Len(Texts)
    /\ \A i \in 1..Len(Texts) : Texts'[i].approved = Texts[i].approved
    /\ \A i \in (Len(Texts) + 1)..Len(Texts') : ~IsApproved(Texts'[i])

\* C27: with nobody editing the sheet, a post the Copywriter saved is never
\* sent, in the same run or in a later one: the stages leave every approved
\* cell as it is, save new posts as not approved, and the channel holds no
\* message of a post whose row is not approved.
C27_ApprovalGate ==
    /\ [](tpc = "stages" =>
            \A i \in 1..Len(Texts) : ~IsApproved(Texts[i]) => SentCount(Texts[i]) = 0)
    /\ [][tpc = "stages" => ApprovalUntouched]_vars

\* the Publisher ran on a sheet that held a post saved by the Copywriter next
\* to an approved one, and delivered the approved one only
C27_Witness ==
    /\ LastRan("Publisher")
    /\ \E i \in 1..Len(ran.texts_before) :
          /\ ran.texts_before[i].date = Today
          /\ ran.texts_before[i].post_text = PostText(ran.texts_before[i].trend)
    /\ Len(telegram) = 1
    /\ \E i \in 1..Len(Texts) :
          IsApproved(Texts[i]) /\ SentCount(Texts[i]) = 1
-----------------------------------------------------------------------------
(* The shape of the returned stats, checked under Spec *)

\* the {agent, error} entries of the recorded outcomes with status 'error',
\* from outcome i on
RECURSIVE ErrorOutcomes(_, _)
ErrorOutcomes(agents, i) ==
    IF i > Len(agents) THEN <<>>
    ELSE (IF agents[i].entry.status = "error"
          THEN <<[agent |-> agents[i].name, error |-> agents[i].entry.error]>>
          ELSE <<>>) \o ErrorOutcomes(agents, i + 1)

\* C29: after one run_pipeline on a new Orchestrator stats['agents'] holds
\* exactly the six stage names in execution order, and stats['errors'] holds
\* one entry for each stage recorded with status 'error', in execution order
\* and with that stage's error text, and none for a stage recorded 'success'.
C29_StatsShape ==
    (tpc = "idle" /\ pc \in {"summary", "return", "completed"}) =>
        /\ [i \in 1..Len(stats.agents) |-> stats.agents[i].name] = STAGES
        /\ stats.errors = ErrorOutcomes(stats.agents, 1)
        /\ \A i \in 1..Len(stats.agents) :
              stats.agents[i].entry.status = "success" =>
                  \A k \in 1..Len(stats.errors) :
                      stats.errors[k].agent # stats.agents[i].name

C29_Witness ==
    /\ tpc = "idle"
    /\ pc = "completed"
    /\ returned = <<stats>>
    /\ Len(stats.errors) = 2
    /\ stats.errors[1].agent = "Sonar Scanner"
    /\ stats.errors[2].agent = "Cover Generator"
    /\ stats.agents[1].entry.status = "success"
    /\ stats.agents[6].entry.status = "success"

-----------------------------------------------------------------------------
(* Properties of _make_request, checked under SpecSonar *)

Retried(reply) == reply.kind \in {"status_429", "timeout"}

Successful(reply) == reply.kind \in {"ok", "ok_not_json"}

\* what a call of _make_request that is over has done, as C23 states it
MakeRequestOutcome(r) ==
    LET n == Len(r.replies) IN
    /\ r.pc = "returned"
    /\ \A k \in 1..(n - 1) : Retried(r.replies[k])
    /\ \/ n > 0 /\ Successful(r.replies[n]) /\ r.result = JsonBody
       \/ n > 0 /\ ~Successful(r.replies[n]) /\ ~Retried(r.replies[n]) /\ r.result = None
       \/ n = MAX_RETRIES /\ Retried(r.replies[n]) /\ r.result = None

\* C23 as stated: _make_request always terminates after at most MAX_RETRIES
\* requests: it returns the JSON body of the first successful response,
\* returns None at once on a request error that is no timeout, and returns
\* None once MAX_RETRIES attempts have each ended in status 429 or a timeout.
C23_MakeRequestTerminates ==
    /\ [](tpc = "sonar" =>
            /\ Len(ran.replies) <= MAX_RETRIES
            /\ ran.pc # "attempt" => MakeRequestOutcome(ran))
    /\ <>(tpc = "sonar" => ran.pc = "returned")

-----------------------------------------------------------------------------
(* Properties of generate_with_retry, checked under SpecRetry *)

Failed(reply) == ~generate_raises(reply) /\ generate(reply) = None

FailedAttempts(r) == Cardinality({k \in 1..Len(r.replies) : Failed(r.replies[k])})

C30_WitnessEmptyText ==
    /\ tpc = "retry"
    /\ ran.pc = "returned"
    /\ ran.result = StrResult("")
    /\ ran.replies = <<"timeout", "empty_content">>
    /\ Len(ran.slept) = 1

-----------------------------------------------------------------------------
(* Properties of schedule mode, checked under SpecSchedule *)

\* C24: in schedule mode the pipeline is triggered at most once per daily
\* time slot, 09:30 in the configured timezone: the scheduler holds exactly
\* one job, with id daily_pipeline and a daily cron trigger, and registering
\* it again replaces the job instead of adding a second one.
C24_OncePerSlot ==
    (tpc = "schedule" /\ ran.pc # "new") =>
        /\ Len(ran.jobs) = 1
        /\ ran.jobs[1].id = "daily_pipeline"
        /\ ran.jobs[1].func = "run_pipeline_wrapper"
        /\ ran.jobs[1].trigger =
              [hour |-> 9, minute |-> 30, timezone |-> ran.timezone]
        /\ \A i \in 1..Len(ran.fired) :
              /\ ran.fired[i].func = "run_pipeline_wrapper"
              /\ ran.fired[i].run_time % MinutesPerDay = 9 * 60 + 30
              /\ ran.fired[i].run_time <= ran.now
              /\ \A j \in 1..Len(ran.fired) :
                    i # j => ran.fired[i].run_time # ran.fired[j].run_time

\* the job was registered a second time while the scheduler was running and
\* the pipeline was triggered on two days, once each
C24_Witness ==
    /\ tpc = "schedule"
    /\ ran.pc = "running"
    /\ ran.added = 2
    /\ Len(ran.jobs) = 1
    /\ Len(ran.fired) = 2
    /\ ran.fired[2].run_time = ran.fired[1].run_time + MinutesPerDay

-----------------------------------------------------------------------------
(* Properties of two overlapping runs, checked under SpecOverlap *)

\* the messages run p delivered
MessagesOf(p) == [k \in 1..Len(ran[p].sent) |-> telegram[ran[p].sent[k]]]

\* C25: nothing protects a run from another one: a run publishes the rows as
\* it read them, so every post it read is sent unless it has no text or the
\* send fails, whatever the other run has sent or marked in the meantime;
\* a run never skips a post because the other run got to it first.
C25_NoOverlapProtection ==
    tpc = "overlap" =>
        \A p \in PipelineRuns :
            /\ \A k \in 1..Len(ran[p].fates) :
                  /\ ran[p].fates[k] \in {"no_text", "send_failed", "sent"}
                  /\ ran[p].fates[k] = "no_text" <=> ran[p].posts[k].post_text = ""
            /\ Len(ran[p].sent) =
                  Cardinality({k \in 1..Len(ran[p].fates) : ran[p].fates[k] = "sent"})
                  + (IF ran[p].pc = "updating" THEN 1 ELSE 0)
            /\ \A k \in 1..Len(ran[p].sent) :
                  \E j \in 1..Len(ran[p].posts) :
                      /\ MessagesOf(p)[k].text = ran[p].posts[j].post_text
                      /\ MessagesOf(p)[k].trend = ran[p].posts[j].trend

\* both runs read the one approved, not yet posted row of the sheet, each of
\* them has sent it, and neither has marked it posted yet
C25_Witness ==
    /\ tpc = "overlap"
    /\ Len(Texts) = 1
    /\ MayBeSent(Texts[1])
    /\ \A p \in PipelineRuns :
          /\ ran[p].pc = "updating"
          /\ Len(ran[p].posts) = 1
          /\ Len(ran[p].sent) = 1
    /\ ran[1].posts = ran[2].posts
    /\ Len(telegram) = 2
    /\ telegram[1].text = telegram[2].text
    /\ telegram[1].text = Texts[1].post_text
====
